---- MODULE Spec2Model ----
(***************************************************************************)
(* State-machine model of litep2p's TransportManager                       *)
(* (src/src/transport/manager.rs): the peer table, the pending-dial table, *)
(* the dial / dial_address state machine, DNS resolution and the           *)
(* reconciliation of transport events, together with the transports that   *)
(* hold a TransportHandle and the protocols that hold a                    *)
(* TransportManagerHandle, and of the TCP transport                        *)
(* (src/src/transport/tcp.rs): its event loop, its address parser and the  *)
(* negotiation pipeline it runs on a socket; of the ping protocol          *)
(* (src/src/protocol/libp2p/ping/mod.rs) and of the identity codec         *)
(* (src/src/codec/identity.rs).                                            *)
(***************************************************************************)
EXTENDS Integers, Sequences, FiniteSets, TLC

VARIABLES
    peers,                  \* TransportManager::peers: PeerId -> PeerContext
    pending_connections,    \* TransportManager::pending_connections: ConnectionId -> PeerId
    next_connection_id,     \* the shared AtomicUsize counter
    transports,             \* registered kind -> Dial commands sent to it, not yet answered
    listen_addresses,       \* TransportManager::listen_addresses
    pending_dns_resolves,   \* in-flight lookups: {[connection, address]}
    event_rx,               \* channel transports -> manager (FIFO)
    cmd_rx,                 \* channel handles -> manager (FIFO)
    open,                   \* connections reported established and not yet closed
    running,                \* FALSE once the manager task has panicked
    returned,               \* the event the last return of next() handed to its caller
    protocols,              \* TransportManager::protocols: name -> fallback names
    protocol_names,         \* TransportManager::protocol_names
    handles,                \* kind -> TransportHandle::protocols of its handle
    protocol_rx,            \* name -> InnerTransportEvents sent to that protocol
    tcp_rx,                 \* TcpTransport::rx: TcpTransportEvents not yet received
    tcp_pending_connections,  \* TcpTransport::pending_connections: sockets connecting
    tcp_pending_negotiations, \* TcpTransport::pending_negotiations: pipelines in its pool
    tcp_task,               \* TcpTransport::run: "running", "panicked" or "returned"
    negotiations,           \* executions of TcpTransport::initialize_connection
    parsed,                 \* the last call of get_socket_address
    dial_call,              \* where the manager task stands inside dial_address
    ping,                   \* the Ping protocol: its fields, its service, its task
    framed                  \* a stream framed by Identity<N>: its buffer, the last item

\* The protocol registry, its copies in the handles, and the protocols' inboxes.
registry == <<protocols, protocol_names, handles, protocol_rx>>

\* The TCP transport.
tcp == <<tcp_rx, tcp_pending_connections, tcp_pending_negotiations, tcp_task,
         negotiations, parsed>>

\* What no call on the manager or on the TCP transport touches.
protocol_side == <<ping, framed>>

vars == <<peers, pending_connections, next_connection_id, transports,
          listen_addresses, pending_dns_resolves, event_rx, cmd_rx,
          open, running, returned, registry, tcp, dial_call, protocol_side>>

-----------------------------------------------------------------------------
(* Bounds of the model.                                                    *)

\* ConnectionIds 0 .. MaxConn-1 can be minted.
MaxConn == 2
\* Events that may wait in the manager's event channel.
MaxEvents == 1
\* Commands that may wait in the manager's command channel.
MaxCmds == 1

-----------------------------------------------------------------------------
(* Values.                                                                 *)

LocalPeer == "local"
RemotePeers == {"p1", "p2"}
PeerIds == RemotePeers \cup {LocalPeer}
NoPeer == "none"

SupportedTransport == {"Tcp", "Quic", "WebRtc", "WebSocket"}

\* A Multiaddr is a sequence of protocol segments <<name, value>>.
Ip4(v) == <<"ip4", v>>
Ip6(v) == <<"ip6", v>>
Dns(v) == <<"dns", v>>
Dns4(v) == <<"dns4", v>>
Dns6(v) == <<"dns6", v>>
Tcp == <<"tcp", "8888">>
Udp == <<"udp", "8888">>
Ws == <<"ws", "/">>
QuicV1 == <<"quic-v1", "">>
\* The value "bad" stands for a multihash PeerId::from_multihash rejects.
P2p(p) == <<"p2p", p>>

EmptyAddr == <<>>

TcpAddr(p) == <<Ip4("4a"), Tcp, P2p(p)>>
Tcp6Addr(p) == <<Ip6("6a"), Tcp, P2p(p)>>
WsAddr(p) == <<Ip4("4a"), Tcp, Ws, P2p(p)>>
QuicAddr(p) == <<Ip4("4a"), Udp, QuicV1, P2p(p)>>
DnsAddr(p) == <<Dns("host"), Tcp, P2p(p)>>

\* Addresses of supported stacks with a literal IP.
GoodAddrs == {TcpAddr("p1"), Tcp6Addr("p1"), QuicAddr("p2"), WsAddr("p2")}

\* One address for each way the resolution of lines 575-649 rejects one.
BadAddrs ==
    {EmptyAddr, <<Tcp, P2p("p1")>>, <<Ip4("4a")>>, <<Ip4("4a"), Tcp>>,
     <<Ip4("4a"), Tcp, Ws>>, <<Ip4("4a"), Udp>>, <<Ip4("4a"), Udp, QuicV1>>,
     <<Ip4("4a"), Udp, P2p("p1")>>, <<Ip4("4a"), Ws>>, <<Ip4("4a"), Tcp, P2p("bad")>>}

\* Addresses handed to dial_address. A rejected address leaves the manager as
\* it was, whichever it is: the calls made hand it three of them.
DialAddrs ==
    GoodAddrs \cup {EmptyAddr, <<Ip4("4a"), Udp, QuicV1>>, <<Ip4("4a"), Tcp, P2p("bad")>>}

\* Addresses that name the local node, and addresses with a symbolic host.
SelfAddrs == {TcpAddr(LocalPeer), <<Ip4("4a"), Tcp>>}
DnsAddrs == {DnsAddr("p2"), <<Dns("host"), Udp, QuicV1, P2p("p2")>>}

\* Addresses handed to TransportManagerHandle::dial_address.
CmdAddrs == {TcpAddr("p1"), QuicAddr("p2")}

\* What add_know_address is called with: <<peer, addresses>>.
KnownAddrInputs ==
    {<<"p1", {TcpAddr("p1")}>>, <<"p1", {<<Ip4("4a"), Tcp>>}>>, <<"p2", {}>>}

\* Transport kinds handed to register_transport.
RegisteredKinds == {"Tcp", "Quic"}

\* What register_protocol is called with: <<name, fallback names>>.
ProtocolInputs == {<<"/ipfs/ping/1.0.0", <<>>>>, <<"/ipfs/kad/1.0.0", <<"/kad/0.9">>>>}

\* The address handed to register_listen_address.
ListenAddr == <<Ip4("4a"), Tcp>>

\* Inbound connections: <<the remote's identity, its address>>.
Inbound == {<<"p1", <<Ip4("4b"), Tcp>>>>}

\* Outcomes of a DNS lookup: a failure or the list of addresses found.
DnsFailed == <<"failed">>
LookupResults == {DnsFailed, <<Ip4("4r")>>, <<Ip4("4r"), Ip6("6r")>>}

\* PeerState
Disconnected == <<"Disconnected">>
Dialing(a) == <<"Dialing", a>>
Connected(a) == <<"Connected", a>>

PeerContext(s, as) == [state |-> s, addresses |-> as]

\* TransportManagerEvent
NoEvent == [type |-> "None", peer |-> NoPeer, connection |-> -1, address |-> EmptyAddr]
ConnectionEstablished(p, c, a) ==
    [type |-> "ConnectionEstablished", peer |-> p, connection |-> c, address |-> a]
ConnectionClosed(p, c) ==
    [type |-> "ConnectionClosed", peer |-> p, connection |-> c, address |-> EmptyAddr]
DialFailure(c, a) ==
    [type |-> "DialFailure", peer |-> NoPeer, connection |-> c, address |-> a]

\* InnerTransportEvent::DialFailure, what a protocol is sent.
InnerDialFailure(p, a) == [type |-> "DialFailure", peer |-> p, address |-> a]

\* TransportManagerCommand::Dial
DialCommand(a, c) == [address |-> a, connection |-> c]

\* InnerTransportManagerCommand
DialPeerCmd(p) == [type |-> "DialPeer", peer |-> p, address |-> EmptyAddr]
DialAddressCmd(a) == [type |-> "DialAddress", peer |-> NoPeer, address |-> a]

Errors == {"TriedToDialSelf", "PeerDoesntExist", "AlreadyConnected",
           "NoAddressAvailable", "TransportNotSupported", "InvalidData",
           "PeerIdMissing", "EssentialTaskClosed"}

\* TcpTransportEvent::OpenConnection
OpenConnection(a) == [type |-> "OpenConnection", address |-> a]

\* crate::Result<(SocketAddr, Option<PeerId>)>; NoPeer stands for None.
ParsedOk(ip, port, p) ==
    [ok |-> TRUE, socket |-> <<ip, port>>, peer |-> p, error |-> "Ok"]
ParsedErr(e) == [ok |-> FALSE, socket |-> <<>>, peer |-> NoPeer, error |-> e]

\* A call of get_socket_address: the address handed to it, what it returned.
Parsed(a, r) == [address |-> a, result |-> r]
NotParsed == Parsed(<<>>, ParsedErr("none"))

\* config::Role
Roles == {"Dialer", "Listener"}

\* The manager task inside dial_address: "idle" outside the call, "unlocked"
\* between the drop of the peers lock at line 656 and the write() at line 657,
\* "sent" between the send of the Dial command at lines 680-690 and the insert
\* into pending_connections at line 691.
DialCall(at, address, peer, kind, connection) ==
    [at |-> at, address |-> address, peer |-> peer, kind |-> kind,
     connection |-> connection]
NoCall == DialCall("idle", <<>>, NoPeer, "none", 0)

\* The TransportService a protocol holds: the events sent to it and not yet
\* received, the shared substream counter, the ids open_substream handed out
\* whose opening has not been answered.
TransportService(rx, next_substream_id, opening) ==
    [rx |-> rx, next_substream_id |-> next_substream_id, opening |-> opening]

\* Ping::new, lines 87-97, and the task of Ping::run: "running", "panicked"
\* or "returned".
Ping(service) ==
    [peers |-> {}, pending_opens |-> [x \in {} |-> x], pending_outbound |-> {},
     service |-> service, task |-> "running"]

\* A Framed<_, Identity<N>>: the bytes read and not yet decoded, and what the
\* last call of decode returned.
Framed(src, item) == [src |-> src, item |-> item]

\* crate::Result<Option<Bytes>> of Identity::decode.
Decoded(frame) == [some |-> TRUE, frame |-> frame]
None == [some |-> FALSE, frame |-> <<>>]
NotDecoded == [some |-> FALSE, frame |-> <<"not called">>]
\* The call unwound: BytesMut::split_to asserts `at <= self.len()`.
Panicked == [some |-> FALSE, frame |-> <<"panicked">>]

-----------------------------------------------------------------------------
(* Helpers on functions used as maps.                                      *)

Put(f, k, v) == [x \in DOMAIN f \cup {k} |-> IF x = k THEN v ELSE f[x]]
Remove(f, k) == [x \in DOMAIN f \ {k} |-> f[x]]
EmptyMap == [x \in {} |-> x]

-----------------------------------------------------------------------------
(* Address-to-transport resolution, dial_address lines 575-649.           *)

\* PeerId::from_multihash succeeds exactly on the multihash of a peer identity.
from_multihash(h) == h \in PeerIds

Resolved(t, p) == [tag |-> "ok", error |-> "Ok", transport |-> t, peer |-> p]
Rejected(e) == [tag |-> "err", error |-> e, transport |-> "none", peer |-> NoPeer]
Symbolic == [tag |-> "dns", error |-> "Ok", transport |-> "none", peer |-> NoPeer]

\* protocol_stack.next(): the name of the i-th segment, "end" past the last one.
Seg(a, i) == IF i <= Len(a) THEN a[i][1] ELSE "end"

\* The same without the check of the multihash.
WithPeerUnchecked(t, a, i) == Resolved(t, a[i][2])

\* (kind, PeerId::from_multihash(hash).map_err(|_| Error::InvalidData)?)
WithPeer(t, a, i) ==
    IF from_multihash(a[i][2]) THEN Resolved(t, a[i][2]) ELSE Rejected("InvalidData")

ResolveTransport(a) ==
    CASE Seg(a, 1) \in {"ip4", "ip6"} ->
            CASE Seg(a, 2) = "tcp" ->
                    CASE Seg(a, 3) = "ws" ->
                            IF Seg(a, 4) = "p2p" THEN WithPeer("WebSocket", a, 4)
                            ELSE Rejected("TransportNotSupported")
                      [] Seg(a, 3) = "p2p" -> WithPeer("Tcp", a, 3)
                      [] OTHER -> Rejected("TransportNotSupported")
              [] Seg(a, 2) = "udp" ->
                    CASE Seg(a, 3) = "quic-v1" ->
                            IF Seg(a, 4) = "p2p" THEN WithPeer("Quic", a, 4)
                            ELSE Rejected("PeerIdMissing")
                      [] OTHER -> Rejected("TransportNotSupported")
              [] OTHER -> Rejected("TransportNotSupported")
      [] Seg(a, 1) \in {"dns", "dns4", "dns6"} -> Symbolic
      [] OTHER -> Rejected("TransportNotSupported")

-----------------------------------------------------------------------------
(* dial_address and dial as functions of the manager's state: the value    *)
(* returned and the state left behind.                                     *)

Outcome(r, ps, n, pc, dns, tr) ==
    [res |-> r, peers |-> ps, next_connection_id |-> n, pending_connections |-> pc,
     pending_dns_resolves |-> dns, transports |-> tr]

\* A return that touches nothing but (possibly) the peer table.
Return(r, ps) ==
    Outcome(r, ps, next_connection_id, pending_connections, pending_dns_resolves,
            transports)

\* The transition without the insert of lines 657-664: a peer with no record
\* is dialed and still has none.
DialTransition_no_record(ps, peer, address) ==
    IF peer \notin DOMAIN ps THEN [noop |-> FALSE, peers |-> ps]
    ELSE IF ps[peer].state[1] \in {"Dialing", "Connected"}
    THEN [noop |-> TRUE, peers |-> ps]
    ELSE [noop |-> FALSE,
          peers |-> Put(ps, peer, PeerContext(Dialing(address),
                                              ps[peer].addresses \cup {address}))]

\* The inspection and transition of the target peer's record, lines 651-677.
DialTransition(ps, peer, address) ==
    IF peer \notin DOMAIN ps
    THEN [noop |-> FALSE,
          peers |-> Put(ps, peer, PeerContext(Dialing(address), {address}))]
    ELSE IF ps[peer].state[1] \in {"Dialing", "Connected"}
    THEN [noop |-> TRUE, peers |-> ps]
    ELSE [noop |-> FALSE,
          peers |-> Put(ps, peer, PeerContext(Dialing(address),
                                              ps[peer].addresses \cup {address}))]

\* Dispatch without the bookkeeping of line 690.
DispatchUnrecorded(ps, kind, peer, address) ==
    IF kind \notin DOMAIN transports
    THEN Outcome("TransportNotSupported", ps, next_connection_id + 1,
                 pending_connections, pending_dns_resolves, transports)
    ELSE Outcome("Ok", ps, next_connection_id + 1, pending_connections,
                 pending_dns_resolves,
                 [transports EXCEPT ![kind] =
                      Append(@, DialCommand(address, next_connection_id))])

\* Dispatch with the bookkeeping of line 690 done ahead of the lookup of 680-683.
DispatchRecordedFirst(ps, kind, peer, address) ==
    IF kind \notin DOMAIN transports
    THEN Outcome("TransportNotSupported", ps, next_connection_id + 1,
                 Put(pending_connections, next_connection_id, peer),
                 pending_dns_resolves, transports)
    ELSE Outcome("Ok", ps, next_connection_id + 1,
                 Put(pending_connections, next_connection_id, peer),
                 pending_dns_resolves,
                 [transports EXCEPT ![kind] =
                      Append(@, DialCommand(address, next_connection_id))])

\* Lines 679-692: mint the ConnectionId, look the transport up, send the Dial
\* command, record the pending entry. `ps` is the peer table as the transition
\* above left it. The send fails once the transport's task has dropped its
\* handle, and with it the receiver of the command channel.
Dispatch(ps, kind, peer, address) ==
    IF kind \notin DOMAIN transports
    THEN Outcome("TransportNotSupported", ps, next_connection_id + 1,
                 pending_connections, pending_dns_resolves, transports)
    ELSE IF kind \notin DOMAIN handles
    THEN Outcome("EssentialTaskClosed", ps, next_connection_id + 1,
                 pending_connections, pending_dns_resolves, transports)
    ELSE Outcome("Ok", ps, next_connection_id + 1,
                 Put(pending_connections, next_connection_id, peer),
                 pending_dns_resolves,
                 [transports EXCEPT ![kind] =
                      Append(@, DialCommand(address, next_connection_id))])

\* The arm of lines 582-598 sending the address to a transport as it is.
SubmitResolveDialing(ps, address) ==
    Outcome("Ok", ps, next_connection_id + 1, pending_connections,
            pending_dns_resolves,
            [kind \in DOMAIN transports |->
                Append(transports[kind], DialCommand(address, next_connection_id))])

\* The same arm reading the counter again for the tag of the lookup.
SubmitResolveTaggedAfter(ps, address) ==
    Outcome("Ok", ps, next_connection_id + 1, pending_connections,
            pending_dns_resolves \cup
                {[connection |-> next_connection_id + 1, address |-> address]},
            transports)

\* Lines 582-598: a symbolic host is handed to the resolver pool.
SubmitResolve(ps, address) ==
    Outcome("Ok", ps, next_connection_id + 1, pending_connections,
            pending_dns_resolves \cup
                {[connection |-> next_connection_id, address |-> address]},
            transports)

dial_address(ps, address) ==
    IF address \in listen_addresses
    THEN Return("TriedToDialSelf", ps)
    ELSE LET r == ResolveTransport(address) IN
         CASE r.tag = "err" -> Return(r.error, ps)
           [] r.tag = "dns" -> SubmitResolve(ps, address)
           [] OTHER ->
                LET d == DialTransition(ps, r.peer, address) IN
                IF d.noop THEN Return("Ok", ps)
                ELSE Dispatch(d.peers, r.transport, r.peer, address)

\* The addresses `addresses.iter().next()` may yield for `peer` (a HashSet has
\* no order); EmptyAddr stands in when dial does not get that far.
NextAddresses(peer) ==
    IF /\ peer \in DOMAIN peers
       /\ peers[peer].state = Disconnected
       /\ peers[peer].addresses # {}
    THEN peers[peer].addresses
    ELSE {EmptyAddr}

\* dial without the arm of lines 542-545: a Connected peer is answered like a
\* Dialing one.
dial_connected_as_dialing(peer, next_address) ==
    IF peer = LocalPeer THEN Return("TriedToDialSelf", peers)
    ELSE IF peer \notin DOMAIN peers THEN Return("PeerDoesntExist", peers)
    ELSE IF peers[peer].state[1] \in {"Connected", "Dialing"} THEN Return("Ok", peers)
    ELSE IF peers[peer].addresses = {} THEN Return("NoAddressAvailable", peers)
    ELSE dial_address(
            [peers EXCEPT ![peer].addresses = @ \ {next_address}], next_address)

\* dial without the ok_or of line 555: with no address to pop there is
\* nothing to dial and the call succeeds.
dial_empty_is_ok(peer, next_address) ==
    IF peer = LocalPeer THEN Return("TriedToDialSelf", peers)
    ELSE IF peer \notin DOMAIN peers THEN Return("PeerDoesntExist", peers)
    ELSE IF peers[peer].state[1] = "Connected" THEN Return("AlreadyConnected", peers)
    ELSE IF peers[peer].state[1] = "Dialing" THEN Return("Ok", peers)
    ELSE IF peers[peer].addresses = {} THEN Return("Ok", peers)
    ELSE dial_address(
            [peers EXCEPT ![peer].addresses = @ \ {next_address}], next_address)

\* TransportManager::dial, lines 535-563; next_address is the address popped.
dial(peer, next_address) ==
    IF peer = LocalPeer THEN Return("TriedToDialSelf", peers)
    ELSE IF peer \notin DOMAIN peers THEN Return("PeerDoesntExist", peers)
    ELSE IF peers[peer].state[1] = "Connected" THEN Return("AlreadyConnected", peers)
    ELSE IF peers[peer].state[1] = "Dialing" THEN Return("Ok", peers)
    ELSE IF peers[peer].addresses = {} THEN Return("NoAddressAvailable", peers)
    ELSE dial_address(
            [peers EXCEPT ![peer].addresses = @ \ {next_address}], next_address)

-----------------------------------------------------------------------------
(* on_resolved_dns_address, lines 696-757.                                 *)

IsV4(ip) == ip[1] = "ip4"
IsV6(ip) == ip[1] = "ip6"

\* The vectors ip4 and ip6 of lines 731-739, in the order of the lookup.
ip4(ips) == SelectSeq(ips, IsV4)
ip6(ips) == SelectSeq(ips, IsV6)

DnsOk(a) == [ok |-> TRUE, address |-> a, error |-> "Ok"]
DnsErr(e) == [ok |-> FALSE, address |-> EmptyAddr, error |-> e]

\* on_resolved_dns_address taking the first result whatever the host segment.
on_resolved_dns_address_first_result(address, result) ==
    IF result = DnsFailed THEN DnsErr("DnsAddressResolutionFailed")
    ELSE IF Len(result) > 0
    THEN DnsOk(<<result[1]>> \o SubSeq(address, 2, Len(address)))
    ELSE DnsErr("TransportNotSupported")

on_resolved_dns_address(address, result) ==
    IF result = DnsFailed THEN DnsErr("DnsAddressResolutionFailed")
    ELSE LET rest == SubSeq(address, 2, Len(address)) IN
         CASE address[1][1] = "dns4" ->
                IF Len(result) > 0 /\ IsV4(result[1])
                THEN DnsOk(<<result[1]>> \o rest)
                ELSE DnsErr("TransportNotSupported")
           [] address[1][1] = "dns6" ->
                IF Len(result) > 0 /\ IsV6(result[1])
                THEN DnsOk(<<result[1]>> \o rest)
                ELSE DnsErr("TransportNotSupported")
           [] OTHER ->
                IF ip6(result) # <<>> THEN DnsOk(<<ip6(result)[1]>> \o rest)
                ELSE IF ip4(result) # <<>> THEN DnsOk(<<ip4(result)[1]>> \o rest)
                ELSE DnsErr("TransportNotSupported")

-----------------------------------------------------------------------------
(* on_transport_manager_event, lines 760-838: the peer table and pending   *)
(* table it leaves, and whether the manager survives the event.            *)

Reconciled(ps, pc, alive) == [peers |-> ps, pending_connections |-> pc, alive |-> alive]

\* The DialFailure arm without the state reset of line 780.
on_dial_failure_state_kept(ev) ==
    IF ev.connection \notin DOMAIN pending_connections
    THEN Reconciled(peers, pending_connections, TRUE)
    ELSE Reconciled(peers, Remove(pending_connections, ev.connection), TRUE)

\* Lines 765-785.
on_dial_failure(ev) ==
    IF ev.connection \notin DOMAIN pending_connections
    THEN Reconciled(peers, pending_connections, TRUE)
    ELSE LET peer == pending_connections[ev.connection] IN
         Reconciled(
            IF peer \in DOMAIN peers
            THEN [peers EXCEPT ![peer].state = Disconnected]
            ELSE peers,
            Remove(pending_connections, ev.connection), TRUE)

\* The ConnectionEstablished arm without the todo!() of line 799: the peer the
\* event names is recorded and the event goes on to the caller.
on_connection_established_trusting(ev) ==
    IF ev.connection \in DOMAIN pending_connections
    THEN Reconciled(
            Put(peers, ev.peer, PeerContext(Connected(ev.address), {ev.address})),
            Remove(pending_connections, ev.connection), TRUE)
    ELSE Reconciled(
            Put(peers, ev.peer, PeerContext(Connected(ev.address), {ev.address})),
            pending_connections, TRUE)

\* Lines 786-830. The todo!() on a peer mismatch panics after the entry was
\* removed; the insert under the still-held write lock (805-815) never returns.
on_connection_established(ev) ==
    IF ev.connection \in DOMAIN pending_connections
    THEN LET dialed_peer == pending_connections[ev.connection]
             pc == Remove(pending_connections, ev.connection) IN
         IF dialed_peer # ev.peer THEN Reconciled(peers, pc, FALSE)
         ELSE IF dialed_peer \in DOMAIN peers
         THEN Reconciled(
                [peers EXCEPT ![dialed_peer] =
                    PeerContext(Connected(ev.address), @.addresses \cup {ev.address})],
                pc, TRUE)
         ELSE Reconciled(peers, pc, FALSE)
    ELSE Reconciled(
            Put(peers, ev.peer, PeerContext(Connected(ev.address), {ev.address})),
            pending_connections, TRUE)

\* The ConnectionClosed arm replacing the record where lines 832-834 only
\* reset its state.
on_connection_closed_forgetful(ev) ==
    Reconciled(
        IF ev.peer \in DOMAIN peers
        THEN Put(peers, ev.peer, PeerContext(Disconnected, {}))
        ELSE peers,
        pending_connections, TRUE)

\* Lines 831-836.
on_connection_closed(ev) ==
    Reconciled(
        IF ev.peer \in DOMAIN peers
        THEN [peers EXCEPT ![ev.peer].state = Disconnected]
        ELSE peers,
        pending_connections, TRUE)

on_transport_manager_event(ev) ==
    CASE ev.type = "DialFailure" -> on_dial_failure(ev)
      [] ev.type = "ConnectionEstablished" -> on_connection_established(ev)
      [] OTHER -> on_connection_closed(ev)

-----------------------------------------------------------------------------
Init ==
    /\ peers = EmptyMap
    /\ pending_connections = EmptyMap
    /\ next_connection_id = 0
    /\ transports = EmptyMap
    /\ listen_addresses = {}
    /\ pending_dns_resolves = {}
    /\ event_rx = <<>>
    /\ cmd_rx = <<>>
    /\ open = {}
    /\ running = TRUE
    /\ returned = NoEvent
    /\ protocols = EmptyMap
    /\ protocol_names = {}
    /\ handles = EmptyMap
    /\ protocol_rx = EmptyMap
    /\ tcp_rx = <<>>
    /\ tcp_pending_connections = <<>>
    /\ tcp_pending_negotiations = <<>>
    /\ tcp_task = "running"
    /\ negotiations = <<>>
    /\ parsed = NotParsed
    /\ dial_call = NoCall
    /\ ping = Ping(TransportService(<<>>, 0, EmptyMap))
    /\ framed = Framed(<<>>, NotDecoded)

-----------------------------------------------------------------------------
(* Calls on the manager by its owner.                                      *)

\* The state a dial or dial_address call (or command) leaves behind.
Apply(out) ==
    /\ out.next_connection_id <= MaxConn
    /\ peers' = out.peers
    /\ next_connection_id' = out.next_connection_id
    /\ pending_connections' = out.pending_connections
    /\ pending_dns_resolves' = out.pending_dns_resolves
    /\ transports' = out.transports

\* What a registration leaves behind, and whether its assertion failed.
Registration(panics, tr, hs, ps, names, rx) ==
    [panics |-> panics, transports |-> tr, handles |-> hs, protocols |-> ps,
     protocol_names |-> names, protocol_rx |-> rx]

\* TransportManager::register_transport, lines 507-522: a kind already
\* registered fails the assertion of line 508 before anything is changed; the
\* handle returned holds a clone of the protocols registered so far.
register_transport(kind) ==
    IF kind \in DOMAIN transports
    THEN Registration(TRUE, transports, handles, protocols, protocol_names, protocol_rx)
    ELSE Registration(FALSE, Put(transports, kind, <<>>), Put(handles, kind, protocols),
                      protocols, protocol_names, protocol_rx)

\* register_protocol with the assertion of line 480 and without the loop of
\* lines 482-486 over the fallback names.
register_protocol_primary_checked(protocol, fallback_names) ==
    IF protocol \in protocol_names
    THEN Registration(TRUE, transports, handles, protocols, protocol_names, protocol_rx)
    ELSE Registration(FALSE, transports, handles,
                      Put(protocols, protocol, fallback_names),
                      protocol_names \cup {protocol}
                          \cup {fallback_names[i] : i \in 1..Len(fallback_names)},
                      Put(protocol_rx, protocol, <<>>))

\* TransportManager::register_protocol, lines 474-504: a name already taken
\* panics before anything is changed; the sender of the new channel goes into
\* the ProtocolContext, the receiver to the protocol.
register_protocol(protocol, fallback_names) ==
    IF protocol \in protocol_names
          \/ \E i \in 1..Len(fallback_names) : fallback_names[i] \in protocol_names
    THEN Registration(TRUE, transports, handles, protocols, protocol_names, protocol_rx)
    ELSE Registration(FALSE, transports, handles,
                      Put(protocols, protocol, fallback_names),
                      protocol_names \cup {protocol}
                          \cup {fallback_names[i] : i \in 1..Len(fallback_names)},
                      Put(protocol_rx, protocol, <<>>))

\* The state a registration leaves behind.
Register(r) ==
    /\ running
    /\ running' = ~r.panics
    /\ transports' = r.transports
    /\ handles' = r.handles
    /\ protocols' = r.protocols
    /\ protocol_names' = r.protocol_names
    /\ protocol_rx' = r.protocol_rx
    /\ UNCHANGED <<peers, pending_connections, next_connection_id, listen_addresses,
                   pending_dns_resolves, event_rx, cmd_rx, open, returned, tcp,
                   dial_call, protocol_side>>

RegisterTransport(kind) == Register(register_transport(kind))

RegisterProtocol(protocol, fallback_names) ==
    Register(register_protocol(protocol, fallback_names))

\* register_listen_address without the second insert of lines 527-529.
register_listen_address_bare(address) == listen_addresses \cup {address}

\* TransportManager::register_listen_address, lines 525-530.
register_listen_address(address) ==
    listen_addresses \cup {address, Append(address, P2p(LocalPeer))}

RegisterListenAddress(address) ==
    /\ running
    /\ listen_addresses' = register_listen_address(address)
    /\ UNCHANGED <<peers, pending_connections, next_connection_id, transports,
                   pending_dns_resolves, event_rx, cmd_rx, open, running,
                   returned, registry, tcp,
                   dial_call, protocol_side>>

\* A direct call of TransportManager::dial.
CallDial(peer, next_address) ==
    /\ running
    /\ Apply(dial(peer, next_address))
    /\ UNCHANGED <<listen_addresses, event_rx, cmd_rx, open, running, returned, registry, tcp,
                   dial_call, protocol_side>>

\* A direct call of TransportManager::dial_address.
CallDialAddress(address) ==
    /\ running
    /\ Apply(dial_address(peers, address))
    /\ UNCHANGED <<listen_addresses, event_rx, cmd_rx, open, running, returned, registry, tcp,
                   dial_call, protocol_side>>

-----------------------------------------------------------------------------
(* TransportManagerHandle, lines 153-221.                                  *)

\* add_know_address inserting a new record whether or not the peer has one.
add_know_address_inserting(peer, addresses) ==
    Put(peers, peer, PeerContext(Disconnected, addresses))

\* add_know_address, lines 165-180: the peer table it leaves.
add_know_address(peer, addresses) ==
    IF peer \in DOMAIN peers
    THEN [peers EXCEPT ![peer].addresses = @ \cup addresses]
    ELSE Put(peers, peer, PeerContext(Disconnected, addresses))

AddKnownAddress(peer, addresses) ==
    /\ running
    /\ peers' = add_know_address(peer, addresses)
    /\ UNCHANGED <<pending_connections, next_connection_id, transports,
                   listen_addresses, pending_dns_resolves, event_rx, cmd_rx,
                   open, running, returned, registry, tcp,
                   dial_call, protocol_side>>

\* The check of lines 188-203 without the guard of line 197: a Disconnected
\* peer is sent to the manager whether or not an address is known for it.
HandleDialCheck_unguarded(peer) ==
    IF peer \notin DOMAIN peers THEN "PeerDoesntExist"
    ELSE IF peers[peer].state[1] = "Connected" THEN "AlreadyConnected"
    ELSE IF peers[peer].state[1] = "Dialing" THEN "Ok"
    ELSE "Send"

\* What TransportManagerHandle::dial answers before it sends, lines 188-203.
HandleDialCheck(peer) ==
    IF peer \notin DOMAIN peers THEN "PeerDoesntExist"
    ELSE IF peers[peer].state[1] = "Connected" THEN "AlreadyConnected"
    ELSE IF peers[peer].state[1] = "Dialing" THEN "Ok"
    ELSE IF peers[peer].addresses = {} THEN "NoAddressAvailable"
    ELSE "Send"

\* TransportManagerHandle::dial, lines 186-210.
HandleDial(peer) ==
    /\ running
    /\ IF HandleDialCheck(peer) = "Send"
       THEN /\ Len(cmd_rx) < MaxCmds
            /\ cmd_rx' = Append(cmd_rx, DialPeerCmd(peer))
       ELSE cmd_rx' = cmd_rx
    /\ UNCHANGED <<peers, pending_connections, next_connection_id, transports,
                   listen_addresses, pending_dns_resolves, event_rx, open,
                   running, returned, registry, tcp,
                   dial_call, protocol_side>>

\* TransportManagerHandle::dial_address, lines 215-220.
HandleDialAddress(address) ==
    /\ running
    /\ Len(cmd_rx) < MaxCmds
    /\ cmd_rx' = Append(cmd_rx, DialAddressCmd(address))
    /\ UNCHANGED <<peers, pending_connections, next_connection_id, transports,
                   listen_addresses, pending_dns_resolves, event_rx, open,
                   running, returned, registry, tcp,
                   dial_call, protocol_side>>

-----------------------------------------------------------------------------
(* TransportManager::next, lines 841-870: one iteration of the select loop. *)

\* event = self.event_rx.recv(): reconcile the event and return it.
NextEvent ==
    /\ running
    /\ event_rx # <<>>
    /\ LET ev == Head(event_rx)
           r == on_transport_manager_event(ev) IN
       /\ peers' = r.peers
       /\ pending_connections' = r.pending_connections
       /\ running' = r.alive
       /\ returned' = IF r.alive THEN ev ELSE returned
    /\ event_rx' = Tail(event_rx)
    /\ UNCHANGED <<next_connection_id, transports, listen_addresses,
                   pending_dns_resolves, cmd_rx, open, registry, tcp,
                   dial_call, protocol_side>>

\* A DNS lookup completes: dial the rewritten address (and unwrap the result),
\* or return the DialFailure.
NextDns(d, result) ==
    /\ running
    /\ d \in pending_dns_resolves
    /\ LET r == on_resolved_dns_address(d.address, result) IN
       IF r.ok
       THEN LET out == dial_address(peers, r.address) IN
            /\ out.next_connection_id <= MaxConn
            /\ peers' = out.peers
            /\ next_connection_id' = out.next_connection_id
            /\ pending_connections' = out.pending_connections
            /\ transports' = out.transports
            /\ pending_dns_resolves' = out.pending_dns_resolves \ {d}
            /\ running' = (out.res \notin Errors)
            /\ returned' = returned
       ELSE /\ pending_dns_resolves' = pending_dns_resolves \ {d}
            /\ returned' = DialFailure(d.connection, d.address)
            /\ UNCHANGED <<peers, next_connection_id, pending_connections,
                           transports, running>>
    /\ UNCHANGED <<listen_addresses, event_rx, cmd_rx, open, registry, tcp,
                   dial_call, protocol_side>>

\* command = self.cmd_rx.recv(): the error of a failed dial is only logged.
NextCommand ==
    /\ running
    /\ cmd_rx # <<>>
    /\ LET cmd == Head(cmd_rx) IN
       IF cmd.type = "DialPeer"
       THEN \E next_address \in NextAddresses(cmd.peer) :
                Apply(dial(cmd.peer, next_address))
       ELSE Apply(dial_address(peers, cmd.address))
    /\ cmd_rx' = Tail(cmd_rx)
    /\ UNCHANGED <<listen_addresses, event_rx, open, running, returned, registry, tcp,
                   dial_call, protocol_side>>

-----------------------------------------------------------------------------
(* The transports: each holds a TransportHandle (lines 225-319). A Dial     *)
(* command stays in `transports` from the moment dial_address sends it      *)
(* until the transport reports the attempt's outcome: the manager cannot    *)
(* tell a command still in the channel from one the transport is working on.*)

\* The peer identity an address ends with (NoPeer if it ends with none).
PeerOf(a) ==
    IF Len(a) > 0 /\ a[Len(a)][1] = "p2p" /\ from_multihash(a[Len(a)][2])
    THEN a[Len(a)][2] ELSE NoPeer

\* The sequence without its i-th element.
Without(q, i) == SubSeq(q, 1, i - 1) \o SubSeq(q, i + 1, Len(q))

\* The i-th attempt of the transport `kind` ends and is taken off its list.
Answered(kind, i) ==
    /\ running
    /\ kind \in DOMAIN transports
    /\ kind \in DOMAIN handles
    /\ i \in 1..Len(transports[kind])
    /\ Len(event_rx) < MaxEvents
    /\ transports' = [transports EXCEPT ![kind] = Without(@, i)]

\* TransportHandle::_report_connection_established, lines 252-266, for an
\* outbound attempt that reached the peer it was meant for.
ReportConnectionEstablished(kind, i) ==
    /\ Answered(kind, i)
    /\ LET d == transports[kind][i]
           peer == PeerOf(d.address) IN
       /\ event_rx' = Append(event_rx,
                             ConnectionEstablished(peer, d.connection, d.address))
       /\ open' = open \cup {[peer |-> peer, connection |-> d.connection]}
    /\ UNCHANGED <<peers, pending_connections, next_connection_id, listen_addresses,
                   pending_dns_resolves, cmd_rx, running, returned, registry, tcp,
                   dial_call, protocol_side>>

\* The same report for an outbound attempt whose handshake proved the identity
\* `peer`, whichever identity the dialed address names.
ReportConnectionEstablishedAs(kind, i, peer) ==
    /\ Answered(kind, i)
    /\ LET d == transports[kind][i] IN
       /\ event_rx' = Append(event_rx,
                             ConnectionEstablished(peer, d.connection, d.address))
       /\ open' = open \cup {[peer |-> peer, connection |-> d.connection]}
    /\ UNCHANGED <<peers, pending_connections, next_connection_id, listen_addresses,
                   pending_dns_resolves, cmd_rx, running, returned, registry, tcp,
                   dial_call, protocol_side>>

\* The report of an inbound connection reading the counter with a load where
\* lines 246-250 use fetch_add.
ReportInboundLoaded(peer, address) ==
    /\ running
    /\ DOMAIN handles # {}
    /\ next_connection_id < MaxConn
    /\ Len(event_rx) < MaxEvents
    /\ event_rx' = Append(event_rx,
                          ConnectionEstablished(peer, next_connection_id, address))
    /\ open' = open \cup {[peer |-> peer, connection |-> next_connection_id]}
    /\ UNCHANGED <<peers, pending_connections, next_connection_id, transports,
                   listen_addresses, pending_dns_resolves, cmd_rx, running,
                   returned, registry, tcp,
                   dial_call, protocol_side>>

\* The same report for an inbound connection: the transport mints its
\* ConnectionId from the shared counter (TransportHandle::next_connection_id,
\* lines 246-250).
ReportInbound(peer, address) ==
    /\ running
    /\ DOMAIN handles # {}
    /\ next_connection_id < MaxConn
    /\ Len(event_rx) < MaxEvents
    /\ next_connection_id' = next_connection_id + 1
    /\ event_rx' = Append(event_rx,
                          ConnectionEstablished(peer, next_connection_id, address))
    /\ open' = open \cup {[peer |-> peer, connection |-> next_connection_id]}
    /\ UNCHANGED <<peers, pending_connections, transports, listen_addresses,
                   pending_dns_resolves, cmd_rx, running, returned, registry, tcp,
                   dial_call, protocol_side>>

\* Lines 282-303: the protocols of the handle of `kind` are each sent an
\* InnerTransportEvent::DialFailure when the address ends with a peer identity.
notify_dial_failure(kind, address) ==
    IF PeerOf(address) = NoPeer THEN protocol_rx
    ELSE [name \in DOMAIN protocol_rx |->
            IF name \in DOMAIN handles[kind]
            THEN Append(protocol_rx[name], InnerDialFailure(PeerOf(address), address))
            ELSE protocol_rx[name]]

\* TransportHandle::report_dial_failure, lines 274-313. For an address that
\* does not end with a peer identity the debug_assert!(false) of lines 296 and
\* 301 panics in a build with debug assertions: the transport's task ends
\* there and drops its handle before the event is sent. A build without them
\* goes on to send the event.
ReportDialFailure(kind, i) ==
    /\ Answered(kind, i)
    /\ LET d == transports[kind][i] IN
       \E debug_assertions \in IF PeerOf(d.address) = NoPeer THEN BOOLEAN ELSE {FALSE} :
          IF debug_assertions
          THEN /\ handles' = Remove(handles, kind)
               /\ UNCHANGED <<protocol_rx, event_rx>>
          ELSE /\ protocol_rx' = notify_dial_failure(kind, d.address)
               /\ event_rx' = Append(event_rx, DialFailure(d.connection, d.address))
               /\ handles' = handles
    /\ UNCHANGED <<peers, pending_connections, next_connection_id, listen_addresses,
                   pending_dns_resolves, cmd_rx, open, running, returned,
                   protocols, protocol_names, tcp,
                   dial_call, protocol_side>>

\* TransportHandle::_report_connection_closed, lines 269-271, for a connection
\* that was reported established.
ReportConnectionClosed(o) ==
    /\ running
    /\ o \in open
    /\ Len(event_rx) < MaxEvents
    /\ event_rx' = Append(event_rx, ConnectionClosed(o.peer, o.connection))
    /\ open' = open \ {o}
    /\ UNCHANGED <<peers, pending_connections, next_connection_id, transports,
                   listen_addresses, pending_dns_resolves, cmd_rx, running,
                   returned, registry, tcp,
                   dial_call, protocol_side>>

\* The same report for an attempt whose connection went away before it was
\* reported established: ConnectionClosed is then the attempt's only outcome.
ReportAttemptClosed(kind, i) ==
    /\ Answered(kind, i)
    /\ LET d == transports[kind][i] IN
       event_rx' = Append(event_rx, ConnectionClosed(PeerOf(d.address), d.connection))
    /\ UNCHANGED <<peers, pending_connections, next_connection_id, listen_addresses,
                   pending_dns_resolves, cmd_rx, open, running, returned, registry, tcp,
                   dial_call, protocol_side>>

-----------------------------------------------------------------------------
\* The kinds an owner that registers each of its transports once has yet to
\* register.
UnregisteredKinds == RegisteredKinds \ DOMAIN transports

\* The manager's owner calling it, and the manager reconciling events.
ManagerStep ==
    \/ \E kind \in UnregisteredKinds : RegisterTransport(kind)
    \/ \E p \in RemotePeers : \E a \in NextAddresses(p) : CallDial(p, a)
    \/ \E a \in DialAddrs : CallDialAddress(a)
    \/ \E k \in KnownAddrInputs : AddKnownAddress(k[1], k[2])
    \/ NextEvent

\* The transports.
TransportStep ==
    \/ \E kind \in RegisteredKinds : \E i \in 1..MaxConn :
            ReportConnectionEstablished(kind, i)
    \/ \E i \in Inbound : ReportInbound(i[1], i[2])
    \/ \E kind \in RegisteredKinds : \E i \in 1..MaxConn : ReportDialFailure(kind, i)
    \/ \E o \in open : ReportConnectionClosed(o)
    \/ \E kind \in RegisteredKinds : \E i \in 1..MaxConn : ReportAttemptClosed(kind, i)

Next == ManagerStep \/ TransportStep

Spec == Init /\ [][Next]_vars

-----------------------------------------------------------------------------
(* The manager of a node that registers a listen address and is asked to   *)
(* dial itself.                                                            *)

SelfStep ==
    \/ RegisterListenAddress(ListenAddr)
    \/ CallDial(LocalPeer, EmptyAddr)
    \/ \E a \in SelfAddrs : CallDialAddress(a)

NextSelf == Next \/ SelfStep

SpecSelf == Init /\ [][NextSelf]_vars

-----------------------------------------------------------------------------
(* The manager's event loop with its resolver pool and the commands of the *)
(* handles.                                                                *)

LoopStep ==
    \/ \E a \in DnsAddrs : CallDialAddress(a)
    \/ \E d \in pending_dns_resolves : \E r \in LookupResults : NextDns(d, r)
    \/ \E p \in RemotePeers : HandleDial(p)
    \/ \E a \in CmdAddrs : HandleDialAddress(a)
    \/ NextCommand

NextLoop == Next \/ LoopStep

SpecLoop == Init /\ [][NextLoop]_vars

-----------------------------------------------------------------------------
(* The manager with its protocols: protocols and transports are registered *)
(* in any order, and dials fail at the transports or in the resolver pool. *)

ProtoStep ==
    \/ \E k \in ProtocolInputs : RegisterProtocol(k[1], k[2])
    \/ \E kind \in UnregisteredKinds : RegisterTransport(kind)
    \/ \E a \in CmdAddrs \cup {DnsAddr("p2")} : CallDialAddress(a)
    \/ \E d \in pending_dns_resolves : \E r \in LookupResults : NextDns(d, r)
    \/ \E kind \in RegisteredKinds : \E i \in 1..MaxConn : ReportDialFailure(kind, i)
    \/ NextEvent

SpecProto == Init /\ [][ProtoStep]_vars

-----------------------------------------------------------------------------
(* The resolver pool: dials of addresses with a symbolic host of each kind, *)
(* lookups that fail or find addresses of either family in any order, next *)
(* to dials of literal addresses and the transports' answers.              *)

\* Addresses with a symbolic host: dns, dns4 and dns6.
DnsInputs ==
    {DnsAddr("p2"), <<Dns4("host"), Tcp, P2p("p2")>>,
     <<Dns6("host"), Udp, QuicV1, P2p("p2")>>}

\* The addresses a lookup may find, and how many it finds at most.
Ips == {Ip4("4r"), Ip4("4s"), Ip6("6r"), Ip6("6s")}
MaxIps == 2

\* LookupIp::iter(): the addresses found, in the order the resolver gives them.
RECURSIVE ListsOf(_)
ListsOf(n) ==
    IF n = 0 THEN {<<>>}
    ELSE {Append(l, ip) : l \in ListsOf(n - 1), ip \in Ips}

IpLists == UNION {ListsOf(n) : n \in 0..MaxIps}

DnsStep ==
    \/ \E kind \in UnregisteredKinds : RegisterTransport(kind)
    \/ \E a \in DnsInputs : CallDialAddress(a)
    \/ CallDialAddress(TcpAddr("p1"))
    \/ \E d \in pending_dns_resolves :
          \/ NextDns(d, DnsFailed)
          \/ \E r \in IpLists : NextDns(d, r)
    \/ \E kind \in RegisteredKinds : \E i \in 1..MaxConn :
          \/ ReportConnectionEstablished(kind, i)
          \/ ReportDialFailure(kind, i)
    \/ NextEvent

SpecDns == Init /\ [][DnsStep]_vars

-----------------------------------------------------------------------------
(* dial_address as a function of the address it is handed: every stack of  *)
(* segments as long as the resolution of lines 575-649 reads.              *)

\* The segments the resolution of lines 575-649 tells apart.
Segments ==
    {Ip4("4a"), Ip6("6a"), Tcp, Udp, Ws, QuicV1, P2p("p1"), P2p("bad")}

\* dial_address reads at most four segments of the address: ip, tcp, ws, p2p.
StackDepth == 4

\* The addresses of exactly n segments, and of at most n.
RECURSIVE StacksOf(_)
StacksOf(n) ==
    IF n = 0 THEN {EmptyAddr}
    ELSE {Append(a, x) : a \in StacksOf(n - 1), x \in Segments}

AddrSpace == UNION {StacksOf(n) : n \in 0..StackDepth}

ResolveStep ==
    \/ \E kind \in UnregisteredKinds : RegisterTransport(kind)
    \/ \E a \in AddrSpace : CallDialAddress(a)

SpecResolve == Init /\ [][ResolveStep]_vars

-----------------------------------------------------------------------------
(* The manager of a node that listens: it registers listen addresses, is   *)
(* asked to dial them and its peers, and its transports answer the dials.  *)

\* The addresses handed to register_listen_address.
ListenInputs == {ListenAddr, <<Ip6("6a"), Tcp>>}

ListenStep ==
    \/ \E kind \in UnregisteredKinds : RegisterTransport(kind)
    \/ \E a \in ListenInputs : RegisterListenAddress(a)
    \/ \E a \in ListenInputs :
          CallDialAddress(a) \/ CallDialAddress(Append(a, P2p(LocalPeer)))
    \/ \E a \in CmdAddrs : CallDialAddress(a)
    \/ \E kind \in RegisteredKinds : \E i \in 1..MaxConn :
          \/ ReportConnectionEstablished(kind, i)
          \/ ReportDialFailure(kind, i)
    \/ \E o \in open : ReportConnectionClosed(o)
    \/ NextEvent

SpecListen == Init /\ [][ListenStep]_vars

-----------------------------------------------------------------------------
(* The manager of a node whose own identity shows up in its peer table: it *)
(* is handed to add_know_address, and a remote proves it in a handshake.   *)

LocalKnownInputs == {<<LocalPeer, {}>>}
LocalInbound == {<<LocalPeer, <<Ip4("4b"), Tcp>>>>}

LocalStep ==
    \/ CallDial(LocalPeer, EmptyAddr)
    \/ \E k \in LocalKnownInputs : AddKnownAddress(k[1], k[2])
    \/ \E i \in LocalInbound : ReportInbound(i[1], i[2])

NextLocal == Next \/ LocalStep

SpecLocal == Init /\ [][NextLocal]_vars

-----------------------------------------------------------------------------
(* The manager with transports whose handshakes prove any identity: the    *)
(* one the dialed address names or another.                                *)

MismatchStep ==
    \/ \E kind \in UnregisteredKinds : RegisterTransport(kind)
    \/ \E a \in CmdAddrs : CallDialAddress(a)
    \/ \E k \in KnownAddrInputs : AddKnownAddress(k[1], k[2])
    \/ \E kind \in RegisteredKinds : \E i \in 1..MaxConn :
          \/ \E peer \in RemotePeers : ReportConnectionEstablishedAs(kind, i, peer)
          \/ ReportDialFailure(kind, i)
    \/ \E o \in open : ReportConnectionClosed(o)
    \/ NextEvent

SpecMismatch == Init /\ [][MismatchStep]_vars

-----------------------------------------------------------------------------
(* Dial failures of addresses that carry more than the resolution of lines  *)
(* 575-649 reads: segments after the peer identity it stops at.            *)

\* Addresses dial_address resolves to Tcp and "p1" whose last segment is not
\* a peer identity, next to one whose last segment is.
TrailingAddrs ==
    {TcpAddr("p1"), <<Ip4("4a"), Tcp, P2p("p1"), Ws>>,
     <<Ip4("4a"), Tcp, P2p("p1"), P2p("bad")>>}

ReportStep ==
    \/ \E k \in ProtocolInputs : RegisterProtocol(k[1], k[2])
    \/ \E kind \in UnregisteredKinds : RegisterTransport(kind)
    \/ \E a \in TrailingAddrs \cup {QuicAddr("p2")} : CallDialAddress(a)
    \/ \E kind \in RegisteredKinds : \E i \in 1..MaxConn : ReportDialFailure(kind, i)
    \/ NextEvent

SpecReport == Init /\ [][ReportStep]_vars

-----------------------------------------------------------------------------
(* The set-up of a node: its owner registers protocols and transports, some *)
(* of them under names or kinds already taken, and dials.                  *)

\* What register_protocol is called with at set-up: the registrations of the
\* tests of lines 879-940, and a primary name that is a fallback of another.
SetupProtocolInputs ==
    {<<"/notif/1", <<>>>>,
     <<"/notif/1", <<"/notif/1/new", "/notif/1">>>>,
     <<"/notif/2", <<"/notif/2/new", "/notif/1">>>>,
     <<"/notif/2", <<"/notif/2/new", "/notif/1/new">>>>,
     <<"/notif/1/new", <<>>>>,
     <<"/notif/3", <<>>>>}

SetupStep ==
    \/ \E k \in SetupProtocolInputs : RegisterProtocol(k[1], k[2])
    \/ \E kind \in RegisteredKinds : RegisterTransport(kind)
    \/ \E a \in CmdAddrs : CallDialAddress(a)

SpecSetup == Init /\ [][SetupStep]_vars

-----------------------------------------------------------------------------
(* TcpTransport, src/src/transport/tcp.rs.                                 *)

\* Sockets the transport has connecting, and pipelines running, at a time.
MaxSockets == 2

\* get_socket_address taking the port of whatever segment follows the
\* endpoint.
get_socket_address_any_transport(address) ==
    IF Seg(address, 1) \in {"ip6", "ip4"}
    THEN IF Seg(address, 2) # "end"
         THEN CASE Seg(address, 3) = "p2p" ->
                     IF from_multihash(address[3][2])
                     THEN ParsedOk(address[1], address[2][2], address[3][2])
                     ELSE ParsedErr("InvalidPeerId")
                [] Seg(address, 3) = "end" ->
                     ParsedOk(address[1], address[2][2], NoPeer)
                [] OTHER -> ParsedErr("InvalidProtocol")
         ELSE ParsedErr("InvalidProtocol")
    ELSE ParsedErr("InvalidProtocol")

\* get_socket_address, lines 138-185: the first two segments give the socket
\* address, the third (if any) the peer; nothing after the third is read.
get_socket_address(address) ==
    IF Seg(address, 1) \in {"ip6", "ip4"}
    THEN IF Seg(address, 2) = "tcp"
         THEN CASE Seg(address, 3) = "p2p" ->
                     IF from_multihash(address[3][2])
                     THEN ParsedOk(address[1], address[2][2], address[3][2])
                     ELSE ParsedErr("InvalidPeerId")
                [] Seg(address, 3) = "end" ->
                     ParsedOk(address[1], address[2][2], NoPeer)
                [] OTHER -> ParsedErr("InvalidProtocol")
         ELSE ParsedErr("InvalidProtocol")
    ELSE ParsedErr("InvalidProtocol")

\* A direct call of get_socket_address.
CallGetSocketAddress(address) ==
    /\ parsed' = Parsed(address, get_socket_address(address))
    /\ UNCHANGED <<peers, pending_connections, next_connection_id, transports,
                   listen_addresses, pending_dns_resolves, event_rx, cmd_rx, open,
                   running, returned, registry, tcp_rx, tcp_pending_connections,
                   tcp_pending_negotiations, tcp_task, negotiations,
                   dial_call, protocol_side>>

\* What the manager and the rest of the node are left with by a step of the
\* TCP transport: it holds no TransportHandle and shares no state with them.
TcpFrame ==
    UNCHANGED <<peers, pending_connections, next_connection_id, transports,
                listen_addresses, pending_dns_resolves, event_rx, cmd_rx, open,
                running, returned, registry, dial_call, protocol_side>>

\* The task of TcpTransport::run ends, by a panic or a return: its receiver
\* and its pools are dropped with it.
TcpTaskEnds(how) ==
    /\ tcp_task' = how
    /\ tcp_rx' = <<>>
    /\ tcp_pending_connections' = <<>>
    /\ tcp_pending_negotiations' = <<>>

\* schedule_negotiation, lines 287-297: `let noise_config = todo!();` panics
\* before a pipeline is pushed into pending_negotiations.
schedule_negotiation(role) == TcpTaskEnds("panicked")

\* A holder of the sender of the transport's channel asks for a connection.
TcpSendOpenConnection(address) ==
    /\ tcp_task = "running"
    /\ Len(tcp_rx) < MaxCmds
    /\ tcp_rx' = Append(tcp_rx, OpenConnection(address))
    /\ UNCHANGED <<tcp_pending_connections, tcp_pending_negotiations, tcp_task,
                   negotiations, parsed>>
    /\ TcpFrame

\* run, lines 360-363 with on_open_connection, lines 313-332: the request is
\* received and, if its address parses, a connect future is pushed into
\* pending_connections; the peer parsed is not looked at.
TcpOpenConnection ==
    /\ tcp_task = "running"
    /\ tcp_rx # <<>>
    /\ LET r == get_socket_address(Head(tcp_rx).address) IN
       /\ parsed' = Parsed(Head(tcp_rx).address, r)
       /\ IF r.ok
          THEN /\ Len(tcp_pending_connections) < MaxSockets
               /\ tcp_pending_connections' = Append(tcp_pending_connections, r.socket)
          ELSE tcp_pending_connections' = tcp_pending_connections
    /\ tcp_rx' = Tail(tcp_rx)
    /\ UNCHANGED <<tcp_pending_negotiations, tcp_task, negotiations>>
    /\ TcpFrame

\* run, lines 349-350: an outbound socket connected.
TcpConnected(i) ==
    /\ tcp_task = "running"
    /\ i \in 1..Len(tcp_pending_connections)
    /\ schedule_negotiation("Dialer")
    /\ UNCHANGED <<negotiations, parsed>>
    /\ TcpFrame

\* run, lines 351-356: an outbound socket failed to connect; the error is
\* logged.
TcpConnectFailed(i) ==
    /\ tcp_task = "running"
    /\ i \in 1..Len(tcp_pending_connections)
    /\ tcp_pending_connections' = Without(tcp_pending_connections, i)
    /\ UNCHANGED <<tcp_rx, tcp_pending_negotiations, tcp_task, negotiations, parsed>>
    /\ TcpFrame

\* run, lines 338-348: the listener accepted a socket, or failed.
TcpAccept(ok) ==
    /\ tcp_task = "running"
    /\ IF ok THEN schedule_negotiation("Listener") ELSE TcpTaskEnds("returned")
    /\ UNCHANGED <<negotiations, parsed>>
    /\ TcpFrame

\* The stages of initialize_connection at which it awaits the remote, in the
\* order of lines 228-241; the multiplexer is constructed at lines 245-247.
Stages == <<"negotiate_noise", "handshake", "negotiate_yamux">>
Bootstrap == "bootstrap"

\* An execution of initialize_connection: the stage it is at (0 once it has
\* returned), the stages it ran with how each ended, and what it returned.
Negotiation(role, at, ran, result) ==
    [role |-> role, at |-> at, ran |-> ran, result |-> result]
Ran(stage, ok) == [stage |-> stage, ok |-> ok]
Pending == [tag |-> "pending", stage |-> "none", mode |-> "none"]
Failed(stage) == [tag |-> "err", stage |-> stage, mode |-> "none"]
Multiplexed(mode) == [tag |-> "ok", stage |-> "none", mode |-> mode]

\* initialize_connection going on to its next stage after one that failed.
initialize_connection_unchecked(n, ok) ==
    LET ran == Append(n.ran, Ran(Stages[n.at], ok)) IN
    IF n.at < Len(Stages)
    THEN Negotiation(n.role, n.at + 1, ran, Pending)
    ELSE IF ok
    THEN Negotiation(n.role, 0, Append(ran, Ran(Bootstrap, TRUE)), Multiplexed("Client"))
    ELSE Negotiation(n.role, 0, ran, Failed(Stages[n.at]))

\* initialize_connection, lines 215-247, from one await to the next: the stage
\* it is at ends with `ok`; an error returns through the `?`, the success of
\* the last negotiation goes on to construct the multiplexer, always in
\* yamux::Mode::Client (line 246), and returns it.
initialize_connection(n, ok) ==
    LET ran == Append(n.ran, Ran(Stages[n.at], ok)) IN
    IF ~ok THEN Negotiation(n.role, 0, ran, Failed(Stages[n.at]))
    ELSE IF n.at < Len(Stages)
    THEN Negotiation(n.role, n.at + 1, ran, Pending)
    ELSE Negotiation(n.role, 0, Append(ran, Ran(Bootstrap, TRUE)), Multiplexed("Client"))

\* A call of initialize_connection on a connected socket.
InitializeConnection(role) ==
    /\ Len(negotiations) < MaxSockets
    /\ negotiations' = Append(negotiations, Negotiation(role, 1, <<>>, Pending))
    /\ UNCHANGED <<tcp_rx, tcp_pending_connections, tcp_pending_negotiations,
                   tcp_task, parsed>>
    /\ TcpFrame

\* The stage the i-th execution awaits ends.
NegotiationStage(i, ok) ==
    /\ i \in 1..Len(negotiations)
    /\ negotiations[i].at # 0
    /\ negotiations' = [negotiations EXCEPT ![i] = initialize_connection(@, ok)]
    /\ UNCHANGED <<tcp_rx, tcp_pending_connections, tcp_pending_negotiations,
                   tcp_task, parsed>>
    /\ TcpFrame

\* The addresses the transport is asked to connect to.
TcpInputs ==
    {TcpAddr("p1"), Tcp6Addr("p1"), <<Ip4("4a"), Tcp>>, QuicAddr("p2"),
     <<Ip4("4a"), Tcp, P2p("bad")>>, <<Ip4("4a"), Tcp, Ws, P2p("p2")>>, DnsAddr("p2")}

\* The event loop of TcpTransport::run and the holders of its sender.
TcpStep ==
    \/ \E a \in TcpInputs : TcpSendOpenConnection(a)
    \/ TcpOpenConnection
    \/ \E i \in 1..MaxSockets : TcpConnected(i) \/ TcpConnectFailed(i)
    \/ \E ok \in BOOLEAN : TcpAccept(ok)

SpecTcp == Init /\ [][TcpStep]_vars

\* The negotiation pipeline run on sockets of either direction.
PipelineStep ==
    \/ \E role \in Roles : InitializeConnection(role)
    \/ \E i \in 1..MaxSockets : \E ok \in BOOLEAN : NegotiationStage(i, ok)

SpecPipeline == Init /\ [][PipelineStep]_vars

\* The segments get_socket_address tells apart, and every address of at most
\* one segment more than it reads.
ParseSegments ==
    {Ip4("4a"), Ip6("6a"), Dns("host"), Tcp, Udp, P2p("p1"), P2p("bad")}

ParseDepth == 4

RECURSIVE ParseStacksOf(_)
ParseStacksOf(n) ==
    IF n = 0 THEN {EmptyAddr}
    ELSE {Append(a, x) : a \in ParseStacksOf(n - 1), x \in ParseSegments}

ParseSpace == UNION {ParseStacksOf(n) : n \in 0..ParseDepth}

\* get_socket_address as a function of the address it is handed.
ParseStep == \E a \in ParseSpace : CallGetSocketAddress(a)

SpecParse == Init /\ [][ParseStep]_vars

-----------------------------------------------------------------------------
(* dial_address, lines 568-693, as the steps other threads can interleave  *)
(* with: the manager task runs it while clones of TransportManagerHandle    *)
(* take the lock of the peer table and transports send into event_rx.       *)

\* The part of the manager's state a step inside dial_address leaves alone.
DialFrame ==
    UNCHANGED <<listen_addresses, pending_dns_resolves, event_rx, cmd_rx, open,
                running, returned, registry, tcp, protocol_side>>

\* Lines 679-690: mint the ConnectionId, look the transport up and send the
\* Dial command. `ps` is the peer table the transition left. The `?` of lines
\* 683 and 690 returns before line 691 is reached.
Send(ps, kind, peer, address) ==
    /\ next_connection_id < MaxConn
    /\ peers' = ps
    /\ next_connection_id' = next_connection_id + 1
    /\ IF kind \in DOMAIN transports /\ kind \in DOMAIN handles
       THEN /\ transports' = [transports EXCEPT ![kind] =
                                Append(@, DialCommand(address, next_connection_id))]
            /\ dial_call' = DialCall("sent", address, peer, kind, next_connection_id)
       ELSE /\ transports' = transports
            /\ dial_call' = NoCall
    /\ pending_connections' = pending_connections
    /\ DialFrame

\* Lines 657-664: HashMap::insert on the table as the second write() finds it.
insert(ps, peer, address) == Put(ps, peer, PeerContext(Dialing(address), {address}))

\* Lines 568-656 (and on to 690 when the record exists): the checks, the
\* resolution, and the inspection of the record under the first write().
\* With no record the guard is dropped at line 656 and the call stands
\* between the two locks.
DialAddressLock(address) ==
    /\ running
    /\ dial_call = NoCall
    /\ LET r == ResolveTransport(address) IN
       IF address \in listen_addresses \/ r.tag # "ok"
       THEN /\ Apply(dial_address(peers, address))
            /\ dial_call' = dial_call
            /\ DialFrame
       ELSE IF r.peer \notin DOMAIN peers
       THEN /\ dial_call' = DialCall("unlocked", address, r.peer, r.transport, 0)
            /\ UNCHANGED <<peers, pending_connections, next_connection_id, transports>>
            /\ DialFrame
       ELSE LET d == DialTransition(peers, r.peer, address) IN
            IF d.noop THEN UNCHANGED vars
            ELSE Send(d.peers, r.transport, r.peer, address)

\* Lines 657-690: the second write() and the insert, then the dispatch.
DialAddressInsert ==
    /\ running
    /\ dial_call.at = "unlocked"
    /\ Send(insert(peers, dial_call.peer, dial_call.address), dial_call.kind,
            dial_call.peer, dial_call.address)

\* The return of line 693 without the insert of line 691.
DialAddressRecord_skipped ==
    /\ running
    /\ dial_call.at = "sent"
    /\ dial_call' = NoCall
    /\ UNCHANGED <<peers, pending_connections, next_connection_id, transports>>
    /\ DialFrame

\* Lines 691-693: the pending entry is recorded and the call returns.
DialAddressRecord ==
    /\ running
    /\ dial_call.at = "sent"
    /\ pending_connections' = Put(pending_connections, dial_call.connection, dial_call.peer)
    /\ dial_call' = NoCall
    /\ UNCHANGED <<peers, next_connection_id, transports>>
    /\ DialFrame

\* What add_know_address is called with while a dial is under way.
GapKnownInputs == {<<"p1", {Tcp6Addr("p1")}>>, <<"p2", {}>>}

\* The manager task, one handle clone on another thread, and the transports.
\* next() runs on the manager task, so between two calls of dial_address.
InterleaveStep ==
    \/ \E kind \in UnregisteredKinds : dial_call = NoCall /\ RegisterTransport(kind)
    \/ \E a \in CmdAddrs : DialAddressLock(a)
    \/ DialAddressInsert
    \/ DialAddressRecord
    \/ \E k \in GapKnownInputs : AddKnownAddress(k[1], k[2])
    \/ \E kind \in RegisteredKinds : \E i \in 1..MaxConn :
            ReportConnectionEstablished(kind, i)
    \/ \E kind \in RegisteredKinds : \E i \in 1..MaxConn : ReportDialFailure(kind, i)
    \/ \E o \in open : ReportConnectionClosed(o)
    \/ dial_call = NoCall /\ NextEvent

SpecInterleave == Init /\ [][InterleaveStep]_vars

-----------------------------------------------------------------------------
(* Protocols dialing through a TransportManagerHandle while the manager    *)
(* runs its loop.                                                          *)

\* What add_know_address is called with ahead of the dials.
HandleKnownInputs ==
    {<<"p1", {TcpAddr("p1")}>>, <<"p2", {QuicAddr("p2")}>>, <<"p2", {}>>}

HandleStep ==
    \/ \E kind \in UnregisteredKinds : RegisterTransport(kind)
    \/ \E k \in HandleKnownInputs : AddKnownAddress(k[1], k[2])
    \/ \E p \in RemotePeers : HandleDial(p)
    \/ NextCommand
    \/ \E kind \in RegisteredKinds : \E i \in 1..MaxConn :
            ReportConnectionEstablished(kind, i)
    \/ \E kind \in RegisteredKinds : \E i \in 1..MaxConn : ReportDialFailure(kind, i)
    \/ \E o \in open : ReportConnectionClosed(o)
    \/ NextEvent

SpecHandle == Init /\ [][HandleStep]_vars

-----------------------------------------------------------------------------
(* The manager and its transports under fair scheduling: next() is polled   *)
(* for as long as an event waits in event_rx, and a transport that holds a  *)
(* Dial command reports the attempt's outcome.                              *)

LiveStep ==
    \/ \E kind \in UnregisteredKinds : RegisterTransport(kind)
    \/ \E a \in CmdAddrs : CallDialAddress(a)
    \/ \E kind \in RegisteredKinds : \E i \in 1..MaxConn :
            ReportConnectionEstablished(kind, i)
    \/ \E kind \in RegisteredKinds : \E i \in 1..MaxConn : ReportDialFailure(kind, i)
    \/ \E o \in open : ReportConnectionClosed(o)
    \/ NextEvent

\* The terminal event of the i-th attempt of `kind`.
Terminal(kind, i) ==
    ReportConnectionEstablished(kind, i) \/ ReportDialFailure(kind, i)

SpecLive ==
    /\ Init
    /\ [][LiveStep]_vars
    /\ WF_vars(NextEvent)
    /\ \A kind \in RegisteredKinds : \A i \in 1..MaxConn : SF_vars(Terminal(kind, i))

-----------------------------------------------------------------------------
(* The ping protocol, src/src/protocol/libp2p/ping/mod.rs, and the          *)
(* TransportService it holds. The service is crate::protocol's: it hands    *)
(* out SubstreamIds from the shared counter and answers each open_substream *)
(* with one SubstreamOpened or SubstreamOpenFailure event.                  *)

\* How many substreams are opened.
MaxSubstreams == 2

\* TransportEvent, as far as Ping::run matches on it.
TransportEvent(type, peer, substream) ==
    [type |-> type, peer |-> peer, substream |-> substream]

\* What a step of the ping protocol or of its service leaves alone.
PingFrame ==
    UNCHANGED <<peers, pending_connections, next_connection_id, transports,
                listen_addresses, pending_dns_resolves, event_rx, cmd_rx, open,
                running, returned, registry, tcp, dial_call, framed>>

\* The service queues an event for the protocol.
Deliver(sv, ev) == [sv EXCEPT !.rx = Append(@, ev)]

\* The connection events of a peer reach the protocol's service.
ServiceConnectionEvent(type, peer) ==
    /\ ping.task = "running"
    /\ Len(ping.service.rx) < MaxEvents
    /\ ping' = [ping EXCEPT !.service = Deliver(@, TransportEvent(type, peer, 0))]
    /\ PingFrame

\* The service answers the open_substream that was given `substream`.
ServiceAnswer(substream, type) ==
    /\ ping.task = "running"
    /\ substream \in DOMAIN ping.service.opening
    /\ Len(ping.service.rx) < MaxEvents
    /\ ping' = [ping EXCEPT !.service =
                  [Deliver(@, TransportEvent(type, @.opening[substream], substream))
                      EXCEPT !.opening = Remove(@, substream)]]
    /\ PingFrame

\* Ping::on_substream_open_failure, lines 152-159: the failure is logged.
on_substream_open_failure(pg, substream) == pg

\* Ping::on_connection_established, lines 100-108; `opened` is whether
\* open_substream returned a SubstreamId, the `?` of line 103 returning early
\* otherwise.
on_connection_established_ping(pg, peer, opened) ==
    IF ~opened THEN pg
    ELSE LET substream_id == pg.service.next_substream_id IN
         [pg EXCEPT !.service.next_substream_id = @ + 1,
                    !.service.opening = Put(@, substream_id, peer),
                    !.pending_opens = Put(@, substream_id, peer),
                    !.peers = @ \cup {peer}]

\* Lines 190-200: the outbound substream is taken out of pending_opens and
\* the exchange of lines 126-137 is pushed; an unknown id is a todo!().
on_outbound_substream_opened(pg, peer, substream_id) ==
    IF substream_id \in DOMAIN pg.pending_opens
    THEN [pg EXCEPT !.pending_opens = Remove(@, substream_id),
                    !.pending_outbound =
                        @ \cup {[peer |-> peer, substream |-> substream_id]}]
    ELSE [pg EXCEPT !.task = "panicked"]

\* The first arm of the select of Ping::run, lines 167-207, on the event at
\* the head of the service's channel.
PingNextEvent(opened) ==
    /\ ping.task = "running"
    /\ ping.service.rx # <<>>
    /\ LET ev == Head(ping.service.rx)
           pg == [ping EXCEPT !.service.rx = Tail(@)] IN
       CASE ev.type = "ConnectionEstablished" ->
               /\ opened => pg.service.next_substream_id < MaxSubstreams
               /\ ping' = on_connection_established_ping(pg, ev.peer, opened)
         [] ev.type = "ConnectionClosed" ->
               ping' = [pg EXCEPT !.peers = @ \ {ev.peer}]
         [] ev.type = "SubstreamOpened" ->
               ping' = on_outbound_substream_opened(pg, ev.peer, ev.substream)
         [] ev.type = "SubstreamOpenFailure" ->
               ping' = on_substream_open_failure(pg, ev.substream)
         [] OTHER -> ping' = pg
    /\ PingFrame

\* The third arm, lines 209-222: an exchange completes and leaves the pool;
\* its result is sent to the user or logged.
PingOutboundDone(f) ==
    /\ ping.task = "running"
    /\ f \in ping.pending_outbound
    /\ ping' = [ping EXCEPT !.pending_outbound = @ \ {f}]
    /\ PingFrame

PingStep ==
    \/ \E p \in RemotePeers :
          \E type \in {"ConnectionEstablished", "ConnectionClosed", "DialFailure"} :
              ServiceConnectionEvent(type, p)
    \/ \E id \in 0..(MaxSubstreams - 1) :
          \E type \in {"SubstreamOpened", "SubstreamOpenFailure"} :
              ServiceAnswer(id, type)
    \/ \E opened \in BOOLEAN : PingNextEvent(opened)
    \/ \E f \in ping.pending_outbound : PingOutboundDone(f)

SpecPing == Init /\ [][PingStep]_vars

-----------------------------------------------------------------------------
(* The identity codec, src/src/codec/identity.rs, on the read buffer of a   *)
(* framed stream.                                                           *)

\* The N of Identity<N>, and how many bytes the buffer holds at most.
N == 2
MaxBuf == 4

\* The bytes the stream carries.
Bytes == {0, 255}

\* What decode returns and the buffer it leaves.
Decode(item, rest) == [item |-> item, src |-> rest]

\* Identity::decode, lines 35-41. split_to(N) panics, before it touches the
\* buffer, when the buffer holds fewer than N bytes.
decode(buf) ==
    IF buf = <<>> THEN Decode(None, buf)
    ELSE IF N > Len(buf) THEN Decode(Panicked, buf)
    ELSE Decode(Decoded(SubSeq(buf, 1, N)), SubSeq(buf, N + 1, Len(buf)))

\* What a step on the framed stream leaves alone.
CodecFrame ==
    UNCHANGED <<peers, pending_connections, next_connection_id, transports,
                listen_addresses, pending_dns_resolves, event_rx, cmd_rx, open,
                running, returned, registry, tcp, dial_call, ping>>

\* A read of the socket appends the bytes that arrived to the buffer.
FramedRead(bytes) ==
    /\ framed.item # Panicked
    /\ Len(framed.src) + Len(bytes) <= MaxBuf
    /\ framed' = [framed EXCEPT !.src = @ \o bytes]
    /\ CodecFrame

\* Framed polls the decoder on the buffer as it stands.
FramedDecode ==
    /\ framed.item # Panicked
    /\ LET r == decode(framed.src) IN framed' = Framed(r.src, r.item)
    /\ CodecFrame

\* The reads of a socket: one byte or two at a time.
Reads == {<<b>> : b \in Bytes} \cup {<<b, c>> : b \in Bytes, c \in Bytes}

CodecStep ==
    \/ \E bytes \in Reads : FramedRead(bytes)
    \/ FramedDecode

SpecCodec == Init /\ [][CodecStep]_vars

-----------------------------------------------------------------------------
(* Properties.                                                             *)

\* The pending-dial entries of `pc` that map to `peer`.
PendingFor(pc, peer) == {c \in DOMAIN pc : pc[c] = peer}

\* The name of the state of `peer` in `ps`; "Absent" if it has no record.
StateOf(ps, peer) == IF peer \in DOMAIN ps THEN ps[peer].state[1] ELSE "Absent"

\* The addresses a caller may hand to dial_address.
AllAddrs == GoodAddrs \cup BadAddrs \cup SelfAddrs

\* The event next() is about to reconcile.
Event == Head(event_rx)

\* next() reconciles an event of one of `types`.
Reconciles(types) == NextEvent /\ Event.type \in types

\* C1: in every reachable state and for every peer, the peer is Dialing if
\* and only if exactly one pending-dial entry maps to it (so no peer ever has
\* more than one pending-dial entry).
C1_DialingIffOnePending ==
    \A p \in PeerIds :
        StateOf(peers, p) = "Dialing"
            <=> Cardinality(PendingFor(pending_connections, p)) = 1

\* C2: when a dial_address call has succeeded in dialing a peer, a second
\* call for the same peer (by the same or another address naming it), made
\* before any event is processed, returns Ok, sends no Dial command and adds
\* no pending-dial entry, and the table holds exactly one entry for that peer.
C2_SecondDialIsNoop ==
    [][\A a \in DialAddrs :
          (CallDialAddress(a) /\ dial_address(peers, a).res = "Ok") =>
              \A b \in DialAddrs :
                  (ResolveTransport(b).tag = "ok" /\ PeerOf(b) = PeerOf(a)) =>
                      /\ dial_address(peers, b)'.res = "Ok"
                      /\ dial_address(peers, b)'.transports = transports'
                      /\ dial_address(peers, b)'.pending_connections
                            = pending_connections'
                      /\ Cardinality(PendingFor(pending_connections', PeerOf(a))) = 1
      ]_vars

\* What a dial_address call that dispatches `address` to `kind` for `peer`
\* returns and leaves behind: one Dial command with the address as given and
\* the ConnectionId just minted, appended to the channel of `kind`, and that
\* ConnectionId mapped to `peer` in the pending-dial table.
Dispatched(out, kind, peer, address) ==
    /\ out.res = "Ok"
    /\ out.next_connection_id = next_connection_id + 1
    /\ kind \in DOMAIN transports
    /\ out.transports =
          [transports EXCEPT ![kind] =
              Append(@, DialCommand(address, next_connection_id))]
    /\ out.pending_connections = Put(pending_connections, next_connection_id, peer)

\* A manager on which nothing was dialed and nothing reported so far.
Fresh == peers = EmptyMap /\ event_rx = <<>> /\ pending_dns_resolves = {}

\* C3 as stated: every dial_address call on a literal-IP address of a
\* supported stack whose kind is registered and whose peer is neither Dialing
\* nor Connected sends exactly one Dial command with that address and a fresh
\* ConnectionId on the channel of that kind and records the ConnectionId for
\* the peer; on a fresh manager the ConnectionId is 0.
C3_DialDispatches ==
    \A a \in AllAddrs :
        LET r == ResolveTransport(a) IN
        (/\ r.tag = "ok"
         /\ r.transport \in DOMAIN transports
         /\ StateOf(peers, r.peer) \notin {"Dialing", "Connected"}) =>
            /\ Dispatched(dial_address(peers, a), r.transport, r.peer, a)
            /\ Fresh => next_connection_id = 0

\* C3, amended: the same for every such address that is not one of the
\* registered listen addresses.
C3_DialDispatchesUnlessSelf ==
    \A a \in AllAddrs :
        LET r == ResolveTransport(a) IN
        (/\ r.tag = "ok"
         /\ r.transport \in DOMAIN transports
         /\ StateOf(peers, r.peer) \notin {"Dialing", "Connected"}
         /\ a \notin listen_addresses) =>
            /\ Dispatched(dial_address(peers, a), r.transport, r.peer, a)
            /\ Fresh => next_connection_id = 0

\* A listen address is registered and the ConnectionId minted last is that of
\* a dispatched dial: its command is the last on a channel and it is pending
\* for the peer the address names.
C3_Witness ==
    /\ listen_addresses # {}
    /\ \E kind \in DOMAIN transports :
          /\ transports[kind] # <<>>
          /\ LET d == transports[kind][Len(transports[kind])] IN
             /\ d.connection = next_connection_id - 1
             /\ d.connection \in DOMAIN pending_connections
             /\ pending_connections[d.connection] = PeerOf(d.address)

\* C4: reconciling ConnectionEstablished{peer, connection, address} removes
\* the pending-dial entry of that connection, leaves the peer's record (made
\* if absent) in state Connected(address), and leaves in its known addresses
\* that address and every address known before.
C4_EstablishedKeepsAddresses ==
    [][Reconciles({"ConnectionEstablished"}) =>
          /\ Event.connection \notin DOMAIN pending_connections'
          /\ Event.peer \in DOMAIN peers'
          /\ peers'[Event.peer].state = Connected(Event.address)
          /\ Event.address \in peers'[Event.peer].addresses
          /\ Event.peer \in DOMAIN peers =>
                peers[Event.peer].addresses \subseteq peers'[Event.peer].addresses
      ]_vars

\* C5: reconciling a DialFailure whose connection has a pending-dial entry
\* removes that entry and no other, sets the dialed peer's state to
\* Disconnected and keeps its known addresses and every other record, and
\* next() returns that DialFailure event.
C5_DialFailureReconciled ==
    [][(Reconciles({"DialFailure"})
            /\ Event.connection \in DOMAIN pending_connections) =>
          LET peer == pending_connections[Event.connection] IN
          /\ pending_connections' = Remove(pending_connections, Event.connection)
          /\ DOMAIN peers' = DOMAIN peers
          /\ \A p \in DOMAIN peers :
                /\ peers'[p].addresses = peers[p].addresses
                /\ peers'[p].state = IF p = peer THEN Disconnected ELSE peers[p].state
          /\ returned' = Event
          /\ running'
      ]_vars

\* next() has returned a DialFailure: its entry is gone, and a peer with
\* known addresses is Disconnected.
C5_Witness ==
    /\ returned.type = "DialFailure"
    /\ returned.connection \notin DOMAIN pending_connections
    /\ PeerOf(returned.address) \in DOMAIN peers
    /\ peers[PeerOf(returned.address)].state = Disconnected
    /\ peers[PeerOf(returned.address)].addresses # {}

\* A pending-dial entry leaves the table only when next() reconciles an event
\* of one of `types` that carries its ConnectionId.
RemovedOnlyBy(types) ==
    \A c \in DOMAIN pending_connections \ DOMAIN pending_connections' :
        Reconciles(types) /\ Event.connection = c

\* An entry enters the table under the ConnectionId being minted, so that an
\* entry once removed never comes back, and an entry keeps its peer.
EnteredOnce ==
    /\ \A c \in DOMAIN pending_connections' \ DOMAIN pending_connections :
          c = next_connection_id /\ next_connection_id' > c
    /\ \A c \in DOMAIN pending_connections \cap DOMAIN pending_connections' :
          pending_connections'[c] = pending_connections[c]

\* C6: every pending-dial entry is removed exactly once, when the
\* manager reconciles the event carrying its ConnectionId, be it
\* ConnectionEstablished, ConnectionClosed or DialFailure, and after that
\* event no entry for that ConnectionId remains.
C6_RemovedByTerminalEvent ==
    [][/\ RemovedOnlyBy({"ConnectionEstablished", "ConnectionClosed", "DialFailure"})
       /\ EnteredOnce
       /\ Reconciles({"ConnectionEstablished", "ConnectionClosed", "DialFailure"})
            => Event.connection \notin DOMAIN pending_connections'
      ]_vars

\* C7: reconciling ConnectionClosed{peer, ..} sets that peer's state to
\* Disconnected and leaves its known addresses, every other peer's record and
\* the set of records as they were; for a peer without a record nothing
\* changes.
C7_ClosedOnlyResetsState ==
    [][Reconciles({"ConnectionClosed"}) =>
          /\ DOMAIN peers' = DOMAIN peers
          /\ \A p \in DOMAIN peers :
                /\ peers'[p].addresses = peers[p].addresses
                /\ peers'[p].state =
                      IF p = Event.peer THEN Disconnected ELSE peers[p].state
          /\ \A p \in PeerIds \ DOMAIN peers :
                on_connection_closed(ConnectionClosed(p, Event.connection)).peers
                    = peers
      ]_vars

\* next() has returned the ConnectionClosed of a peer that was Connected:
\* the peer is Disconnected and knows its addresses, next to another peer that
\* is not Disconnected.
C7_Witness ==
    /\ returned.type = "ConnectionClosed"
    /\ returned.connection \notin DOMAIN pending_connections
    /\ StateOf(peers, returned.peer) = "Disconnected"
    /\ peers[returned.peer].addresses # {}
    /\ \E p \in DOMAIN peers :
          p # returned.peer /\ peers[p].state # Disconnected

\* A call that returned the error `out.res` left the peer table and the
\* pending-dial table as they were.
Untouched(out) ==
    out.res \in Errors =>
        out.peers = peers /\ out.pending_connections = pending_connections

\* C8: whenever dial or dial_address returns an error, every peer's state and
\* known addresses and the pending-dial table are as they were before the call.
C8_ErrorsMutateNothing ==
    /\ \A a \in AllAddrs : Untouched(dial_address(peers, a))
    /\ \A p \in PeerIds : \A a \in NextAddresses(p) : Untouched(dial(p, a))

\* C9 as stated: dial_address on a well-formed address whose transport kind
\* is not registered returns TransportNotSupported and adds no pending-dial
\* entry, whatever the registered transports and the address shape.
C9_UnregisteredKindRejected ==
    \A a \in AllAddrs :
        LET r == ResolveTransport(a)
            out == dial_address(peers, a) IN
        (r.tag = "ok" /\ r.transport \notin DOMAIN transports) =>
            /\ out.res = "TransportNotSupported"
            /\ out.pending_connections = pending_connections

\* C9, amended: such a call adds no pending-dial entry, and it returns
\* TransportNotSupported when the address is not a registered listen address
\* and the peer it names is neither Dialing nor Connected.
C9_UnregisteredKindRejectedUnlessDeduplicated ==
    \A a \in AllAddrs :
        LET r == ResolveTransport(a)
            out == dial_address(peers, a) IN
        (r.tag = "ok" /\ r.transport \notin DOMAIN transports) =>
            /\ out.pending_connections = pending_connections
            /\ (/\ a \notin listen_addresses
                /\ StateOf(peers, r.peer) \notin {"Dialing", "Connected"})
                  => out.res = "TransportNotSupported"
            /\ a \in listen_addresses => out.res = "TriedToDialSelf"
            /\ (/\ a \notin listen_addresses
                /\ StateOf(peers, r.peer) \in {"Dialing", "Connected"})
                  => out.res = "Ok"

\* A dial_address over a kind that is not registered was made while another
\* kind was: the ConnectionId minted last has no entry and no command, and
\* the peer named is Dialing that address with no entry of its own.
C9_Witness ==
    /\ DOMAIN transports # {}
    /\ \E p \in DOMAIN peers :
          /\ peers[p].state[1] = "Dialing"
          /\ ResolveTransport(peers[p].state[2]).transport \notin DOMAIN transports
          /\ PendingFor(pending_connections, p) = {}
    /\ next_connection_id > 0
    /\ next_connection_id - 1 \notin DOMAIN pending_connections
    /\ \A kind \in DOMAIN transports : \A i \in 1..Len(transports[kind]) :
          transports[kind][i].connection # next_connection_id - 1
    /\ event_rx = <<>>
    /\ open = {}

\* The step is a dial_address that returns TransportNotSupported: called
\* directly, run for a command of a handle, or re-issued by next() for an
\* address whose lookup succeeded.
DialNotSupported ==
    \/ \E a \in DialAddrs \cup DnsAddrs :
          CallDialAddress(a) /\ dial_address(peers, a).res = "TransportNotSupported"
    \/ /\ NextCommand
       /\ \/ /\ Head(cmd_rx).type = "DialAddress"
             /\ dial_address(peers, Head(cmd_rx).address).res
                    = "TransportNotSupported"
          \/ /\ Head(cmd_rx).type = "DialPeer"
             /\ \A a \in NextAddresses(Head(cmd_rx).peer) :
                    dial(Head(cmd_rx).peer, a).res = "TransportNotSupported"
    \/ \E d \in pending_dns_resolves : \E result \in LookupResults :
          /\ NextDns(d, result)
          /\ on_resolved_dns_address(d.address, result).ok
          /\ dial_address(peers, on_resolved_dns_address(d.address, result).address).res
                = "TransportNotSupported"

\* C10: a dial that fails with TransportNotSupported is not fatal to the
\* manager on any path by which dial_address is invoked: the manager keeps
\* running after it.
C10_NotSupportedIsNotFatal ==
    [][DialNotSupported => running']_vars

-----------------------------------------------------------------------------
\* The addresses `peer` knows in `ps`: none without a record.
Known(ps, peer) == IF peer \in DOMAIN ps THEN ps[peer].addresses ELSE {}

\* C11: a peer's known-address set contains every address that was ever
\* registered for it, popped for a dial of it, dialed for it or reported in a
\* ConnectionEstablished for it: no operation removes an address from the
\* set, and each of these operations leaves its address in the set.
C11_KnownAddressesOnlyGrow ==
    [][/\ \A p \in PeerIds : Known(peers, p) \subseteq Known(peers', p)
       /\ \A k \in KnownAddrInputs :
             AddKnownAddress(k[1], k[2]) => k[2] \subseteq Known(peers', k[1])
       /\ \A p \in RemotePeers : \A a \in NextAddresses(p) :
             (CallDial(p, a) /\ a # EmptyAddr) => a \in Known(peers', p)
       /\ \A a \in DialAddrs :
             (CallDialAddress(a) /\ dial_address(peers, a).res = "Ok")
                 => a \in Known(peers', PeerOf(a))
       /\ Reconciles({"ConnectionEstablished"})
             => Event.address \in Known(peers', Event.peer)
      ]_vars

\* C12 as stated: for every peer in state Connected, dial(peer) returns
\* AlreadyConnected, dispatches no Dial command, and leaves the pending-dial
\* table and the peer's record (and everything else) unchanged.
C12_ConnectedIsAlreadyConnected ==
    \A p \in PeerIds :
        StateOf(peers, p) = "Connected" =>
            \A a \in NextAddresses(p) : dial(p, a) = Return("AlreadyConnected", peers)

\* C12, amended: the same for every peer other than the local identity, for
\* which dial returns TriedToDialSelf, again changing nothing.
C12_RemoteConnectedIsAlreadyConnected ==
    \A p \in PeerIds :
        StateOf(peers, p) = "Connected" =>
            \A a \in NextAddresses(p) :
                dial(p, a) = Return(IF p = LocalPeer THEN "TriedToDialSelf"
                                    ELSE "AlreadyConnected", peers)

\* A remote peer is Connected and knows an address, a transport is there to
\* dial it, and the local identity is Connected as well.
C12_Witness ==
    /\ \E p \in RemotePeers :
          /\ StateOf(peers, p) = "Connected"
          /\ peers[p].addresses # {}
          /\ ResolveTransport(peers[p].state[2]).transport \in DOMAIN transports
    /\ StateOf(peers, LocalPeer) = "Connected"

\* C13 as stated: for every peer that has a record with an empty
\* known-address set, in any reachable state, dial(peer) returns
\* NoAddressAvailable and dispatches nothing.
C13_NoAddressAvailable ==
    \A p \in PeerIds :
        (p \in DOMAIN peers /\ peers[p].addresses = {}) =>
            \A a \in NextAddresses(p) : dial(p, a) = Return("NoAddressAvailable", peers)

\* C13, amended: the same for every peer other than the local identity, for
\* which dial returns TriedToDialSelf.
C13_RemoteNoAddressAvailable ==
    \A p \in PeerIds :
        (p \in DOMAIN peers /\ peers[p].addresses = {}) =>
            \A a \in NextAddresses(p) :
                dial(p, a) = Return(IF p = LocalPeer THEN "TriedToDialSelf"
                                    ELSE "NoAddressAvailable", peers)

\* A remote peer has a record without addresses while a transport is
\* registered, and the local identity has a record without addresses.
C13_Witness ==
    /\ \E p \in RemotePeers :
          /\ p \in DOMAIN peers
          /\ peers[p].addresses = {}
    /\ DOMAIN transports # {}
    /\ LocalPeer \in DOMAIN peers
    /\ peers[LocalPeer].addresses = {}

\* C14: dialing self is rejected: dial(local peer identity) returns
\* TriedToDialSelf whatever the peer table holds, and after any sequence of
\* dial and dial_address calls no transport was sent a Dial command for an
\* address whose embedded peer identity is the local peer identity.
C14_SelfNeverDialed ==
    /\ \A a \in NextAddresses(LocalPeer) :
          dial(LocalPeer, a).res = "TriedToDialSelf"
    /\ \A kind \in DOMAIN transports : \A i \in 1..Len(transports[kind]) :
          PeerOf(transports[kind][i].address) # LocalPeer

\* C15: for every address A passed to register_listen_address,
\* dial_address(A) and dial_address(A with the local peer identity appended)
\* both return TriedToDialSelf, dispatch no Dial command, mint no ConnectionId
\* and change no peer record. (An address of ListenInputs is in
\* listen_addresses exactly when it was passed to register_listen_address.)
C15_ListenAddressIsSelf ==
    \A A \in ListenInputs :
        A \in listen_addresses =>
            /\ dial_address(peers, A) = Return("TriedToDialSelf", peers)
            /\ dial_address(peers, Append(A, P2p(LocalPeer)))
                  = Return("TriedToDialSelf", peers)

\* A listen address is registered on a manager that would dial it with the
\* local identity appended: its transport is registered and the local
\* identity is neither Dialing nor Connected, while a remote peer is dialed.
C15_Witness ==
    /\ \E A \in ListenInputs :
          /\ A \in listen_addresses
          /\ LET r == ResolveTransport(Append(A, P2p(LocalPeer))) IN
             /\ r.tag = "ok"
             /\ r.transport \in DOMAIN transports
             /\ StateOf(peers, r.peer) \notin {"Dialing", "Connected"}
    /\ pending_connections # EmptyMap

\* The names of the segments of `a` after its first.
Stack(a) == [i \in 1..(Len(a) - 1) |-> a[i + 1][1]]

\* The sequence `t` begins with the sequence `pre`.
StartsWith(t, pre) == Len(t) >= Len(pre) /\ SubSeq(t, 1, Len(pre)) = pre

\* The addresses of AddrSpace that begin with a literal IP segment.
LiteralIpAddrs == {a \in AddrSpace : Seg(a, 1) \in {"ip4", "ip6"}}

\* dial_address treats `a` as an address of transport `kind` whose peer
\* identity is the value of its i-th segment: a peer that is neither Dialing
\* nor Connected is dialed over `kind` when it is registered, and the call
\* fails with TransportNotSupported when it is not.
ResolvesTo(a, kind, i) ==
    /\ ResolveTransport(a) = Resolved(kind, a[i][2])
    /\ (a \notin listen_addresses
            /\ StateOf(peers, a[i][2]) \notin {"Dialing", "Connected"}) =>
          IF kind \in DOMAIN transports
          THEN Dispatched(dial_address(peers, a), kind, a[i][2], a)
          ELSE dial_address(peers, a).res = "TransportNotSupported"

\* dial_address rejects `a` with `error` and changes nothing.
RejectedWith(a, error) ==
    /\ ResolveTransport(a) = Rejected(error)
    /\ a \notin listen_addresses => dial_address(peers, a) = Return(error, peers)

Commands ==
    UNION {{transports[kind][i] : i \in 1..Len(transports[kind])} :
              kind \in DOMAIN transports}

\* The address begins with a symbolic host segment.
SymbolicHost(a) == Seg(a, 1) \in {"dns", "dns4", "dns6"}

\* C17: dial_address on an address whose leading segment is a symbolic host
\* (dns, dns4, dns6) returns Ok at once, sending no Dial command and leaving
\* the peer table and the pending-dial table alone: it only tags a lookup
\* with the ConnectionId it mints. A Dial command for the address is sent
\* only once the lookup completed, by dial_address on the rewritten address:
\* no ConnectionId of a lookup in flight is on a command or in the pending
\* table, every command that carries a resolved IP carries a rewritten
\* address, and no command carries a symbolic host.
C17_SymbolicHostResolvedFirst ==
    /\ \A a \in DnsInputs :
          a \notin listen_addresses =>
              dial_address(peers, a) =
                  Outcome("Ok", peers, next_connection_id + 1, pending_connections,
                          pending_dns_resolves \cup
                              {[connection |-> next_connection_id, address |-> a]},
                          transports)
    /\ \A d \in pending_dns_resolves :
          /\ SymbolicHost(d.address)
          /\ d.connection \notin DOMAIN pending_connections
          /\ \A c \in Commands : c.connection # d.connection
    /\ \A c \in Commands :
          /\ ~SymbolicHost(c.address)
          /\ c.address[1] \in Ips =>
                \E a \in DnsInputs : \E r \in IpLists :
                    on_resolved_dns_address(a, r) = DnsOk(c.address)

\* A lookup completed and the transport of the rewritten address was sent
\* the Dial command for it, under a ConnectionId minted after the lookup's.
C17_Witness ==
    \E c \in Commands :
        /\ c.address[1] \in Ips
        /\ c.connection > 0
        /\ c.connection \in DOMAIN pending_connections
        /\ pending_connections[c.connection] = PeerOf(c.address)

\* The first address of `family` ("ip4" or "ip6") in the list `r`.
FirstOfFamily(r, family) ==
    r[CHOOSE i \in 1..Len(r) :
          /\ r[i][1] = family
          /\ \A j \in 1..(i - 1) : r[j][1] # family]

\* The first IPv6 address of a list that has one, else its first address.
Preferred(r) ==
    IF \E i \in 1..Len(r) : IsV6(r[i]) THEN FirstOfFamily(r, "ip6")
    ELSE FirstOfFamily(r, "ip4")

DnsFails(d) ==
    \/ NextDns(d, DnsFailed)
    \/ \E r \in IpLists : NextDns(d, r) /\ ~on_resolved_dns_address(d.address, r).ok

\* C19: whenever the resolution of a symbolic-host dial fails, next() returns
\* a DialFailure event that carries the ConnectionId minted when that dial
\* was submitted and the original address, and no Dial command is sent for
\* it.
C19_DnsFailureReturned ==
    [][/\ \A a \in DnsInputs :
             CallDialAddress(a) =>
                 pending_dns_resolves' =
                     pending_dns_resolves \cup
                         {[connection |-> next_connection_id, address |-> a]}
       /\ \A d \in pending_dns_resolves :
             DnsFails(d) =>
                 /\ returned' = DialFailure(d.connection, d.address)
                 /\ d.connection < next_connection_id
                 /\ transports' = transports
                 /\ pending_connections' = pending_connections
                 /\ pending_dns_resolves' = pending_dns_resolves \ {d}
                 /\ running'
      ]_vars

\* next() returned the DialFailure of a lookup: its address has a symbolic
\* host, no command and no pending entry carries its ConnectionId, and the
\* manager runs.
C19_Witness ==
    /\ returned.type = "DialFailure"
    /\ SymbolicHost(returned.address)
    /\ returned.connection < next_connection_id
    /\ returned.connection \notin DOMAIN pending_connections
    /\ \A c \in Commands : c.connection # returned.connection
    /\ running

\* The protocol `name` was sent the DialFailure notification for `address`.
Notified(rx, name, address) ==
    \E i \in 1..Len(rx[name]) :
        rx[name][i] = InnerDialFailure(PeerOf(address), address)

\* C20: every DialFailure event next() returns, be it reported by a
\* transport or made of a failed DNS resolution, comes with a peer-scoped
\* DialFailure notification sent to every protocol registered with the
\* manager, whatever the order in which protocols and transports were
\* registered.
C20_DialFailureFansOut ==
    [][(\/ Reconciles({"DialFailure"})
        \/ \E d \in pending_dns_resolves : DnsFails(d)) =>
          \A name \in DOMAIN protocols :
              Notified(protocol_rx', name, returned'.address)
      ]_vars

-----------------------------------------------------------------------------
\* The event at the head of the manager's channel is a ConnectionEstablished
\* whose peer is not the one its pending-dial entry was made for.
Mismatched ==
    /\ running
    /\ event_rx # <<>>
    /\ Head(event_rx).type = "ConnectionEstablished"
    /\ Head(event_rx).connection \in DOMAIN pending_connections
    /\ pending_connections[Head(event_rx).connection] # Head(event_rx).peer

\* C21: when next() takes from its channel a ConnectionEstablished naming a
\* peer other than the one recorded in the pending-dial entry of its
\* ConnectionId, the manager stops: the peer table is left as it was (neither
\* identity becomes Connected) and next() returns no event.
C21_MismatchIsFatal ==
    [][ (Mismatched /\ event_rx' = Tail(event_rx))
            => /\ ~running'
               /\ peers' = peers
               /\ returned' = returned
      ]_vars

\* The manager has stopped on a mismatch: the dialed peer is left Dialing with
\* its entry gone, and no peer is Connected.
C21_Witness ==
    /\ ~running
    /\ event_rx = <<>>
    /\ returned = NoEvent
    /\ \E p \in RemotePeers :
          /\ StateOf(peers, p) = "Dialing"
          /\ PendingFor(pending_connections, p) = {}
    /\ \A q \in DOMAIN peers : StateOf(peers, q) # "Connected"

-----------------------------------------------------------------------------
\* The transport `kind` reports the failure of its i-th attempt.
ReportsFailureOf(kind, i) ==
    /\ kind \in DOMAIN transports
    /\ i \in 1..Len(transports[kind])
    /\ transports' = [transports EXCEPT ![kind] = Without(@, i)]

\* C22: reporting the dial failure of an address that does not end with a
\* peer identity segment, or whose identity segment does not parse, never
\* ends the reporting transport: no protocol is notified and the DialFailure
\* event is sent to the manager.
C22_MalformedAddressStillReported ==
    [][ \A kind \in RegisteredKinds : \A i \in 1..MaxConn :
            (ReportsFailureOf(kind, i) /\ PeerOf(transports[kind][i].address) = NoPeer)
                => /\ kind \in DOMAIN handles'
                   /\ protocol_rx' = protocol_rx
                   /\ event_rx' =
                        Append(event_rx, DialFailure(transports[kind][i].connection,
                                                     transports[kind][i].address))
      ]_vars

-----------------------------------------------------------------------------
\* The ConnectionIds held anywhere: in the pending-dial table, in the lookups
\* in flight, in the Dial commands at the transports, in the events on their
\* way to the manager and in the connections reported established.
IdsHeld(pc, dns, tr, erx, op) ==
    DOMAIN pc
        \cup {d.connection : d \in dns}
        \cup UNION {{tr[kind][i].connection : i \in 1..Len(tr[kind])} : kind \in DOMAIN tr}
        \cup {erx[i].connection : i \in 1..Len(erx)}
        \cup {o.connection : o \in op}

\* C23: ConnectionIds are never reused. The manager (dial_address) and every
\* TransportHandle (inbound connections) mint from the one counter with an
\* atomic fetch_add, so whichever mints next, in any order: the counter never
\* goes back, every id held anywhere was minted below it, and an id that
\* appears in a step is the counter's value before the step, which that step
\* moved past it. Each id minted is thus greater than all minted before it.
C23_ConnectionIdsNeverReused ==
    [][ LET held == IdsHeld(pending_connections, pending_dns_resolves, transports,
                            event_rx, open)
            held_after == IdsHeld(pending_connections', pending_dns_resolves',
                                  transports', event_rx', open')
        IN /\ next_connection_id' \in {next_connection_id, next_connection_id + 1}
           /\ \A c \in held : c < next_connection_id
           /\ \A c \in held_after \ held :
                 /\ c = next_connection_id
                 /\ next_connection_id' = c + 1
      ]_vars

\* The manager minted ConnectionId 0 for a dial and a transport's handle then
\* minted 1 for an inbound connection.
C23_Witness ==
    /\ next_connection_id = 2
    /\ 0 \in DOMAIN pending_connections
    /\ \E i \in Inbound :
          /\ event_rx # <<>>
          /\ Head(event_rx) = ConnectionEstablished(i[1], 1, i[2])

-----------------------------------------------------------------------------
\* The names the registrations made so far hold, as primary or as fallback.
RegisteredNames ==
    DOMAIN protocols
        \cup UNION {{protocols[q][i] : i \in 1..Len(protocols[q])} : q \in DOMAIN protocols}

\* A registration that panicked and added nothing.
Refused(r) ==
    /\ r.panics
    /\ r.protocols = protocols
    /\ r.protocol_names = protocol_names
    /\ r.protocol_rx = protocol_rx
    /\ r.transports = transports
    /\ r.handles = handles

\* C24: duplicate registration is fatal. register_protocol panics when its
\* primary name or one of its fallback names is held, as primary or as
\* fallback, by an earlier registration, and register_transport panics when
\* the kind is already registered; neither then adds a registration.
C24_DuplicateRegistrationIsFatal ==
    /\ \A k \in SetupProtocolInputs :
          (k[1] \in RegisteredNames
              \/ \E i \in 1..Len(k[2]) : k[2][i] \in RegisteredNames)
          => Refused(register_protocol(k[1], k[2]))
    /\ \A kind \in RegisteredKinds :
          kind \in DOMAIN transports => Refused(register_transport(kind))

\* The owner has registered a protocol under a taken name, or a transport
\* twice: the panic left the registrations as they were.
C24_Witness ==
    /\ ~running
    /\ DOMAIN protocols = {"/notif/1", "/notif/2"}
    /\ RegisteredNames = {"/notif/1", "/notif/2", "/notif/2/new", "/notif/1/new"}
    /\ DOMAIN transports = {"Tcp"}

-----------------------------------------------------------------------------
\* C25: add_known_address(peer, addresses) gives a peer without a record one
\* with state Disconnected and exactly the given addresses; for a peer with a
\* record it adds the given addresses to those known and keeps the peer's
\* state and the addresses known before. Either way every other peer's
\* record is left as it was, and a step that is such a call leaves the
\* pending-dial table as it was.
C25_AddKnownAddressExtends ==
    /\ [](\A k \in KnownAddrInputs :
            LET after == add_know_address(k[1], k[2]) IN
            /\ DOMAIN after = DOMAIN peers \cup {k[1]}
            /\ \A q \in DOMAIN peers \ {k[1]} : after[q] = peers[q]
            /\ IF k[1] \in DOMAIN peers
               THEN /\ after[k[1]].state = peers[k[1]].state
                    /\ after[k[1]].addresses = peers[k[1]].addresses \cup k[2]
               ELSE after[k[1]] = PeerContext(Disconnected, k[2]))
    /\ [][ \A k \in KnownAddrInputs :
              (peers' # peers /\ peers' = add_know_address(k[1], k[2]))
                  => pending_connections' = pending_connections
         ]_vars

\* "p1" is Connected over an inbound connection, whose report replaced its
\* record, and both addresses handed to add_know_address since are known.
C25_Witness ==
    \E i \in Inbound :
        /\ i[1] \in DOMAIN peers
        /\ peers[i[1]] =
              PeerContext(Connected(i[2]),
                          {i[2]} \cup UNION {k[2] : k \in {x \in KnownAddrInputs : x[1] = i[1]}})

-----------------------------------------------------------------------------
\* The stages of the pipeline in their order.
PipelineOrder == Append(Stages, Bootstrap)

\* C26: the pipeline runs security-protocol negotiation, security handshake,
\* multiplexer negotiation and multiplexer bootstrap strictly in that order.
\* A stage that fails is the last one run: the pipeline then returns a single
\* error, that of the failed stage, and no multiplexed connection; it returns
\* a multiplexed connection only after all four stages succeeded; and once it
\* has returned nothing more runs.
C26_PipelineStrictlyOrdered ==
    /\ [](\A i \in 1..Len(negotiations) :
            LET n == negotiations[i] IN
            /\ Len(n.ran) <= Len(PipelineOrder)
            /\ \A j \in 1..Len(n.ran) :
                  /\ n.ran[j].stage = PipelineOrder[j]
                  /\ ~n.ran[j].ok => /\ j = Len(n.ran)
                                     /\ n.result = Failed(n.ran[j].stage)
            /\ n.result.tag = "err" => /\ n.ran # <<>>
                                       /\ ~n.ran[Len(n.ran)].ok
                                       /\ n.result.mode = "none"
            /\ n.result.tag = "ok" <=>
                  /\ Len(n.ran) = Len(PipelineOrder)
                  /\ \A j \in 1..Len(n.ran) : n.ran[j].ok
            /\ n.result.tag = "pending" <=> n.at # 0)
    /\ [][ \A i \in 1..Len(negotiations) :
              negotiations[i].result.tag # "pending"
                  => negotiations'[i] = negotiations[i]
         ]_vars

\* One pipeline failed at its handshake after the negotiation before it
\* succeeded, another ran all four stages.
C26_Witness ==
    \E i, j \in 1..Len(negotiations) :
        /\ negotiations[i].result = Failed("handshake")
        /\ Len(negotiations[i].ran) = 2
        /\ negotiations[j].result.tag = "ok"
        /\ Len(negotiations[j].ran) = 4

\* C27: the multiplexed connection the pipeline returns is constructed in
\* the role of the connection's direction: client for a dialed socket, server
\* for an accepted one.
C27_MultiplexerRoleMatchesDirection ==
    \A i \in 1..Len(negotiations) :
        negotiations[i].result.tag = "ok"
            => negotiations[i].result.mode =
                  (IF negotiations[i].role = "Dialer" THEN "Client" ELSE "Server")

-----------------------------------------------------------------------------
\* An outbound attempt of the TCP transport leaves its pool of connecting
\* sockets.
AttemptLeavesPool == Len(tcp_pending_connections') < Len(tcp_pending_connections)

\* C28: every outbound attempt the TCP transport starts ends in one report to
\* the Transport Manager. An attempt leaves the pool of connecting sockets
\* either into the pool of negotiating pipelines, whose completion is
\* reported as ConnectionEstablished or DialFailure, or, its socket having
\* failed to connect, with a DialFailure sent to the manager.
C28_EveryAttemptReported ==
    [][ AttemptLeavesPool
            => \/ /\ Len(tcp_pending_connections') = Len(tcp_pending_connections) - 1
                  /\ Len(tcp_pending_negotiations') = Len(tcp_pending_negotiations) + 1
                  /\ event_rx' = event_rx
               \/ /\ Len(tcp_pending_connections') = Len(tcp_pending_connections) - 1
                  /\ tcp_pending_negotiations' = tcp_pending_negotiations
                  /\ Len(event_rx') = Len(event_rx) + 1
                  /\ event_rx'[Len(event_rx')].type = "DialFailure"
      ]_vars

\* C29: the TCP transport starts an outbound socket connection for an
\* OpenConnection request only when the request's address holds the full
\* stack: a network endpoint, the tcp segment and a peer identity.
C29_ConnectsOnlyFullStack ==
    [][ Len(tcp_pending_connections') > Len(tcp_pending_connections)
            => LET a == Head(tcp_rx).address IN
               /\ Seg(a, 1) \in {"ip4", "ip6"}
               /\ Seg(a, 2) = "tcp"
               /\ Seg(a, 3) = "p2p"
               /\ from_multihash(a[3][2])
      ]_vars

-----------------------------------------------------------------------------
\* The address starts with a literal endpoint and the tcp segment.
TcpEndpoint(a) == Seg(a, 1) \in {"ip4", "ip6"} /\ Seg(a, 2) = "tcp"

\* The third segment of the address is a peer identity.
ThirdIsPeer(a) == Seg(a, 3) = "p2p" /\ from_multihash(a[3][2])

\* What get_socket_address returns for an address it accepts.
Accepted(a, r) ==
    /\ r.ok
    /\ r.socket = <<a[1], a[2][2]>>
    /\ r.peer = IF Seg(a, 3) = "p2p" THEN a[3][2] ELSE NoPeer

\* The rejections with an address error: another leading segment, a second
\* segment other than tcp, a third segment other than p2p.
RejectedAsInvalidProtocol(a, r) ==
    (~TcpEndpoint(a) \/ Seg(a, 3) \notin {"p2p", "end"})
        => r = ParsedErr("InvalidProtocol")

\* C30 as stated: get_socket_address accepts exactly the addresses made of
\* ip4 or ip6, tcp and at most one p2p peer identity after them, returning the
\* socket address and the optional peer, and rejects with an address error
\* every address with another leading segment, a second segment other than
\* tcp or a third segment other than p2p.
C30_AcceptsExactlyTcpAddresses ==
    parsed # NotParsed =>
        LET a == parsed.address
            r == parsed.result
        IN /\ r.ok <=> /\ TcpEndpoint(a)
                       /\ \/ Len(a) = 2
                          \/ Len(a) = 3 /\ ThirdIsPeer(a)
           /\ r.ok => Accepted(a, r)
           /\ RejectedAsInvalidProtocol(a, r)

\* C30: get_socket_address accepts exactly the addresses that start with
\* ip4 or ip6 and tcp and whose third segment, if there is one, is a p2p peer
\* identity, whatever follows the third segment; it returns the socket address
\* and the optional peer. It rejects with an address error every address with
\* another leading segment, a second segment other than tcp or a third
\* segment other than p2p, and it rejects a p2p segment that is no peer
\* identity.
C30_AcceptsTcpPrefix ==
    parsed # NotParsed =>
        LET a == parsed.address
            r == parsed.result
        IN /\ r.ok <=> /\ TcpEndpoint(a)
                       /\ Len(a) = 2 \/ ThirdIsPeer(a)
           /\ r.ok => Accepted(a, r)
           /\ RejectedAsInvalidProtocol(a, r)

\* get_socket_address accepted an address with a segment after the peer
\* identity.
C30_Witness ==
    /\ parsed.address = <<Ip4("4a"), Tcp, P2p("p1"), Udp>>
    /\ parsed.result = ParsedOk(Ip4("4a"), Tcp[2], "p1")

-----------------------------------------------------------------------------
\* C31: the inspection and transition of the target peer's record in
\* dial_address is atomic with respect to concurrent handle clones: whatever
\* add_know_address does on another thread while dial_address runs, the step
\* of dial_address that writes the record leaves the peer Dialing the dialed
\* address, with that address known and with every address the table held
\* for the peer just before the write still known.
C31_DialKeepsConcurrentAddresses ==
    [][(dial_call.at = "unlocked" /\ dial_call'.at # "unlocked") =>
          LET p == dial_call.peer IN
          /\ p \in DOMAIN peers'
          /\ peers'[p].state = Dialing(dial_call.address)
          /\ dial_call.address \in peers'[p].addresses
          /\ p \in DOMAIN peers => peers[p].addresses \subseteq peers'[p].addresses]_vars

-----------------------------------------------------------------------------
\* C32: for every peer table and every peer other than the local one,
\* TransportManagerHandle::dial answers what TransportManager::dial would
\* answer in that state (AlreadyConnected for Connected, Ok for Dialing,
\* NoAddressAvailable for Disconnected with no address, PeerDoesntExist for
\* no record), it enqueues exactly one DialPeer command if and only if the
\* peer is Disconnected with a known address, and it leaves the peer table as
\* it was.
Dialable(peer) ==
    /\ peer \in DOMAIN peers
    /\ peers[peer].state = Disconnected
    /\ peers[peer].addresses # {}

C32_HandleDialAgreesWithDial ==
    /\ [](\A peer \in RemotePeers : \A a \in NextAddresses(peer) :
            LET h == HandleDialCheck(peer) IN
            IF Dialable(peer) THEN h = "Send"
            ELSE /\ h = dial(peer, a).res
                 /\ dial(peer, a).peers = peers
                 /\ h = CASE peer \notin DOMAIN peers -> "PeerDoesntExist"
                          [] peers[peer].state[1] = "Connected" -> "AlreadyConnected"
                          [] peers[peer].state[1] = "Dialing" -> "Ok"
                          [] OTHER -> "NoAddressAvailable")
    /\ [][Len(cmd_rx') > Len(cmd_rx) =>
            /\ cmd_rx' = Append(cmd_rx, cmd_rx'[Len(cmd_rx')])
            /\ cmd_rx'[Len(cmd_rx')].type = "DialPeer"
            /\ Dialable(cmd_rx'[Len(cmd_rx')].peer)
            /\ peers' = peers]_vars

\* A DialPeer command for a Disconnected peer with a known address is in the
\* channel, and another peer is Dialing or Connected.
C32_Witness ==
    /\ cmd_rx # <<>>
    /\ cmd_rx[1].type = "DialPeer"
    /\ Dialable(cmd_rx[1].peer)
    /\ \E p \in DOMAIN peers : peers[p].state[1] \in {"Dialing", "Connected"}

-----------------------------------------------------------------------------
\* C33: a ConnectionId is minted once per dial attempt: when the lookup of a
\* symbolic-host dial completes and the Dial command for the rewritten
\* address is dispatched, the command carries the ConnectionId minted when
\* the dial was submitted for resolution, and the pending-dial table records
\* the attempt under that id.
C33_ResolvedDialKeepsItsConnectionId ==
    [][\A d \in pending_dns_resolves :
          \A kind \in DOMAIN transports :
              (/\ d \notin pending_dns_resolves'
               /\ kind \in DOMAIN transports'
               /\ Len(transports'[kind]) > Len(transports[kind])) =>
                  /\ transports'[kind][Len(transports'[kind])].connection = d.connection
                  /\ d.connection \in DOMAIN pending_connections']_vars

-----------------------------------------------------------------------------
\* C34: a peer with a live connection stays Connected: a peer whose state is
\* Connected (a ConnectionEstablished for it was processed) leaves that state
\* only in the step that processes a ConnectionClosed for it, and so not when
\* a DialFailure for an earlier dial of the same peer is processed.
C34_ConnectedUntilClosed ==
    [][\A p \in DOMAIN peers :
          (peers[p].state[1] = "Connected" /\ peers'[p].state[1] # "Connected") =>
              /\ event_rx # <<>>
              /\ Head(event_rx).type = "ConnectionClosed"
              /\ Head(event_rx).peer = p
              /\ event_rx' = Tail(event_rx)]_vars

-----------------------------------------------------------------------------
\* C35: no peer stays in Dialing forever: with every Dial command answered by
\* a terminal event and the manager's loop scheduled fairly, a peer that is
\* Dialing is eventually Connected or Disconnected, whatever dial_address
\* returned when it put the peer in Dialing.
C35_DialingEventuallyEnds ==
    \A p \in RemotePeers :
        (p \in DOMAIN peers /\ peers[p].state[1] = "Dialing")
            ~> (p \in DOMAIN peers /\ peers[p].state[1] \in {"Connected", "Disconnected"})

-----------------------------------------------------------------------------
\* C36: although dial_address sends the Dial command before it records the
\* pending-dial entry, the manager never processes a ConnectionEstablished or
\* a DialFailure for a ConnectionId it dispatched while the pending-dial table
\* lacks that id: every command and every terminal event in flight carries an
\* id that is recorded, or the id of the call that stands between its send
\* and its insert, and next() runs only between calls.
InFlight ==
    {c.connection : c \in Commands} \cup
    {event_rx[i].connection :
        i \in {j \in 1..Len(event_rx) :
                  event_rx[j].type \in {"ConnectionEstablished", "DialFailure"}}}

C36_TerminalEventFindsPendingEntry ==
    /\ [](\A c \in InFlight :
            \/ c \in DOMAIN pending_connections
            \/ dial_call.at = "sent" /\ dial_call.connection = c)
    /\ [][(/\ event_rx # <<>>
           /\ event_rx' = Tail(event_rx)
           /\ Head(event_rx).type \in {"ConnectionEstablished", "DialFailure"}) =>
              Head(event_rx).connection \in DOMAIN pending_connections]_vars

\* The transport has reported the outcome of an attempt whose pending entry
\* the manager has yet to record.
C36_Witness ==
    /\ dial_call.at = "sent"
    /\ dial_call.connection \notin DOMAIN pending_connections
    /\ event_rx # <<>>
    /\ Head(event_rx).type \in {"ConnectionEstablished", "DialFailure"}
    /\ Head(event_rx).connection = dial_call.connection

-----------------------------------------------------------------------------
\* C37: after the register_protocol calls made so far, no protocol name occurs
\* more than once among all primary names and all fallback lists taken
\* together (not across registrations, and not within one: no fallback equals
\* its own primary name and no fallback is listed twice), and the manager's
\* set of names is the union of the primary and fallback names registered.
Fallbacks(q) == {protocols[q][i] : i \in 1..Len(protocols[q])}

C37_NamesOccurOnce ==
    /\ protocol_names = RegisteredNames
    /\ \A q \in DOMAIN protocols :
          /\ q \notin Fallbacks(q)
          /\ Cardinality(Fallbacks(q)) = Len(protocols[q])
          /\ \A o \in DOMAIN protocols \ {q} :
                /\ o \notin Fallbacks(q)
                /\ Fallbacks(o) \cap Fallbacks(q) = {}

-----------------------------------------------------------------------------
\* C38: every peer identity that is a value of the pending-dial table has a
\* record in the peer table, so a ConnectionEstablished that finds its
\* pending entry finds the dialed peer's record as well, and the arm of lines
\* 805-815 that inserts a record under the write lock taken for the lookup is
\* never executed.
C38_PendingPeersHaveRecords ==
    /\ \A c \in DOMAIN pending_connections : pending_connections[c] \in DOMAIN peers
    /\ \A i \in 1..Len(event_rx) :
          (/\ event_rx[i].type = "ConnectionEstablished"
           /\ event_rx[i].connection \in DOMAIN pending_connections) =>
              on_connection_established(event_rx[i]).alive
                  = (pending_connections[event_rx[i].connection] = event_rx[i].peer)

\* The established outcome of a dial waits in event_rx: its pending entry is
\* there and the lookup of the dialed peer's record is about to run.
C38_Witness ==
    /\ event_rx # <<>>
    /\ Head(event_rx).type = "ConnectionEstablished"
    /\ Head(event_rx).connection \in DOMAIN pending_connections
    /\ pending_connections[Head(event_rx).connection] = Head(event_rx).peer
    /\ Head(event_rx).peer \in DOMAIN peers

-----------------------------------------------------------------------------
\* C39: in the ping protocol pending_opens holds only substreams whose opening
\* is still in progress: every SubstreamId in it was handed out by
\* open_substream and either has not been answered by the service or has its
\* SubstreamOpened / SubstreamOpenFailure waiting in the channel, so once
\* every requested open has been answered and handled pending_opens is empty.
Answering(substream) ==
    \E i \in 1..Len(ping.service.rx) :
        /\ ping.service.rx[i].type \in {"SubstreamOpened", "SubstreamOpenFailure"}
        /\ ping.service.rx[i].substream = substream

C39_PendingOpensAreInProgress ==
    \A substream \in DOMAIN ping.pending_opens :
        substream \in DOMAIN ping.service.opening \/ Answering(substream)

-----------------------------------------------------------------------------
\* C40: Identity<N>::decode reads frames of exactly N bytes: on every buffer
\* it either returns None and leaves the buffer as it was, or returns the
\* first N bytes and removes exactly those; on a non-empty buffer of fewer
\* than N bytes it returns None, neither failing nor returning a shorter
\* frame.
C40_DecodeReadsWholeFrames ==
    LET r == decode(framed.src) IN
    /\ \/ r = Decode(None, framed.src)
       \/ /\ Len(framed.src) >= N
          /\ r = Decode(Decoded(SubSeq(framed.src, 1, N)),
                        SubSeq(framed.src, N + 1, Len(framed.src)))
    /\ Len(framed.src) < N => r.item = None
====
